---- MODULE Spec2Model ----
(***************************************************************************)
(* Plan-generation and clinic-override engine of the recovery companion    *)
(* backend: services/plan/generatePlan.ts and enforceClinicOverrides.ts.    *)
(*                                                                         *)
(* JavaScript values are encoded as records with a type tag "t":           *)
(*   numbers carry twice their value in "twice" (so that 5.5 is 11 and     *)
(*   Math.floor is floor division by 2); arrays carry their elements in    *)
(*   "items"; a non-string array element is one of NonStrings.             *)
(***************************************************************************)
EXTENDS Integers, Sequences, FiniteSets, TLC

VARIABLES template, config, overridesJson, calls,
          user, now, logins, accessToken, resetsDone, response,
          failedChecks,
          activation, instances, claims, generates, reply, timesClaimed

\* the engine's caller, and the account of the auth controller
engineVars == <<template, config, overridesJson, calls>>
authVars == <<user, now, logins, accessToken, resetsDone, response,
              failedChecks>>

storeVars == <<activation, instances, claims, generates, reply, timesClaimed>>

vars == <<engineVars, authVars, storeVars>>

(***************************************************************************)
(* Bounds of the model                                                     *)
(***************************************************************************)
MaxTemplateDays == 2     \* longest template days array drawn
MaxResets == 2           \* password resets
MaxTicks == 2            \* steps of the clock

MaxRegens == 2           \* regenerations of a plan instance

\* the login requests in flight at once
LoginRequests == {"first", "second"}

\* the claim requests, and the generate requests, in flight at once
ClaimRequests == {"first", "second"}
GenerateRequests == {"first", "second"}

(***************************************************************************)
(* Program constants                                                       *)
(***************************************************************************)
NumDays == 21            \* ensure21Days: for (day = 0; day < 21; day++)
LastDay == 20            \* normalizeDayV2: Math.min(20, ...)
EarlyLast == 3           \* phaseForDay: day <= 3
MidLast == 10            \* phaseForDay: day <= 10
MaxDayNumber == 1000     \* normalizeDayNumber: Math.min(1000, ...)
CapMin == 1              \* maxModulesPerDay: min(1)
LockThreshold == 5       \* login: newFailCount >= 5
LockMinutes == 15        \* login: Date.now() + 15 * 60 * 1000
TickMinutes == 10        \* the step of the clock, in minutes
InitialTokenVersion == 1 \* register: tokenVersion: 1
CapMax == 50             \* maxModulesPerDay: max(50)
SchemaVersion == 2       \* planJson.schemaVersion

(***************************************************************************)
(* Encoding of JavaScript values                                           *)
(***************************************************************************)
NonStrings == {"#42", "#null"}          \* array elements that are not strings
Null == "#null"                         \* the value null where a string may stand

IsString(x) == x \notin NonStrings

Undef == [t |-> "undef", twice |-> 0]
Num(twice) == [t |-> "num", twice |-> twice]     \* the number twice/2
NaN == [t |-> "nan", twice |-> 0]
NotANumber == [t |-> "str", twice |-> 0]         \* a value whose typeof is not "number"

NoList == [t |-> "undef", items |-> <<>>]
Arr(items) == [t |-> "arr", items |-> items]
NotAnArray == [t |-> "str", items |-> <<>>]

\* String.prototype.trim on the strings the model draws
Trim(s) ==
  CASE s = " track_pain " -> "track_pain"
    [] s = "   " -> ""
    [] OTHER -> s

Floor(n) == n.twice \div 2

IsInteger(n) == n.twice % 2 = 0

Min(a, b) == IF a <= b THEN a ELSE b
Max(a, b) == IF a >= b THEN a ELSE b

Range(s) == {s[i] : i \in 1..Len(s)}

\* a function on 1..n as the tuple of its values, each computed once
AsSeq(f) == f \o <<>>

\* Array.prototype.filter is SelectSeq

(***************************************************************************)
(* generatePlan.ts: helpers                                                *)
(***************************************************************************)
isPlainObject(v) == v.t = "obj"

asArray(v) == IF v.t = "arr" THEN v.items ELSE <<>>

RECURSIVE DedupeFrom(_, _)
DedupeFrom(arr, seen) ==
  IF arr = <<>> THEN <<>>
  ELSE LET s == Head(arr)
           key == Trim(s)
       IN IF ~IsString(s) \/ key = "" \/ key \in seen
          THEN DedupeFrom(Tail(arr), seen)
          ELSE <<key>> \o DedupeFrom(Tail(arr), seen \cup {key})

\* dedupe keeping the last occurrence of an id instead of the first
RECURSIVE dedupe_keepsLast(_)
dedupe_keepsLast(arr) ==
  IF arr = <<>> THEN <<>>
  ELSE LET s == Head(arr)
           key == Trim(s)
           rest == dedupe_keepsLast(Tail(arr))
       IN IF ~IsString(s) \/ key = "" \/ key \in Range(rest) THEN rest ELSE <<key>> \o rest

dedupe(arr) == DedupeFrom(arr, {})

phaseForDay(day) ==
  IF day <= EarlyLast THEN "early"
  ELSE IF day <= MidLast THEN "mid"
  ELSE "late"

\* getStr putting a value where the config has none
getStr_defaulted(cfg, key) == IF IsString(cfg[key]) THEN cfg[key] ELSE "open_wound"

getStr(cfg, key) == IF IsString(cfg[key]) THEN cfg[key] ELSE Null

Truthy(s) == s # Null /\ s # ""

ValidPhases == {"early", "mid", "late"}

NoTitle == "#null"

\* normalizeDayV2 keeping the template's own moduleIds array when it is one
normalizeDayV2_sharesArray(raw, dayIndex) ==
  LET isObj == isPlainObject(raw)
      day == IF isObj /\ raw.day.t = "num"
             THEN Max(0, Min(LastDay, Floor(raw.day)))
             ELSE dayIndex
      phase == IF isObj /\ raw.phase \in ValidPhases THEN raw.phase ELSE phaseForDay(day)
      title == IF isObj /\ IsString(raw.title) THEN raw.title ELSE "Day " \o ToString(day)
      isArray == isObj /\ raw.moduleIds.t = "arr"
      boxItems == IF isObj THEN SelectSeq(asArray(raw.boxItems), IsString) ELSE <<>>
  IN [day |-> day, phase |-> phase, title |-> title,
      moduleIds |-> IF isArray THEN raw.moduleIds.items ELSE <<>>, boxItems |-> boxItems,
      shared |-> isArray, src |-> dayIndex + 1]

normalizeDayV2(raw, dayIndex) ==
  LET isObj == isPlainObject(raw)
      day == IF isObj /\ raw.day.t = "num"
             THEN Max(0, Min(LastDay, Floor(raw.day)))
             ELSE dayIndex
      phase == IF isObj /\ raw.phase \in ValidPhases THEN raw.phase ELSE phaseForDay(day)
      title == IF isObj /\ IsString(raw.title) THEN raw.title ELSE "Day " \o ToString(day)
      moduleIds == IF isObj THEN SelectSeq(asArray(raw.moduleIds), IsString) ELSE <<>>
      boxItems == IF isObj THEN SelectSeq(asArray(raw.boxItems), IsString) ELSE <<>>
  IN [day |-> day, phase |-> phase, title |-> title,
      moduleIds |-> moduleIds, boxItems |-> boxItems,
      \* filter() returns a new array: the entry does not share the template's
      shared |-> FALSE, src |-> dayIndex + 1]

DefaultModuleIds == <<"checkin_overall", "track_pain", "rf_emergency", "rf_worsening">>

DefaultBoxItems == <<"box_gauze", "box_tape", "box_coldpack">>

DefaultDay(day) ==
  LET phase == phaseForDay(day)
  IN [day |-> day, phase |-> phase,
      title |-> IF day <= EarlyLast THEN "Day " \o ToString(day) \o ": Getting organized"
                ELSE IF phase = "mid" THEN "Day " \o ToString(day) \o ": Build consistency"
                ELSE "Day " \o ToString(day) \o ": Maintain progress",
      moduleIds |-> DefaultModuleIds,
      boxItems |-> IF day <= EarlyLast THEN DefaultBoxItems ELSE <<>>,
      shared |-> FALSE, src |-> 0]

\* byDay.set(d.day, d) in array order: the last entry of a day number stays
byDayGet(days, day) ==
  LET hits == {k \in 1..Len(days) : days[k].day = day}
  IN IF hits = {} THEN 0 ELSE CHOOSE k \in hits : \A j \in hits : j <= k

\* ensure21Days spreading an existing entry without resetting its phase
ensure21Days_keepsPhase(days) ==
  AsSeq([i \in 1..NumDays |->
     LET day == i - 1
         k == byDayGet(days, day)
     IN IF k # 0 THEN [days[k] EXCEPT !.day = day] ELSE DefaultDay(day)])

\* ensure21Days keeping the first entry of a day number instead of the last
ensure21Days_firstWins(days) ==
  AsSeq([i \in 1..NumDays |->
     LET day == i - 1
         hits == {k \in 1..Len(days) : days[k].day = day}
     IN IF hits # {}
        THEN [days[CHOOSE k \in hits : \A j \in hits : k <= j]
                EXCEPT !.day = day, !.phase = phaseForDay(day)]
        ELSE DefaultDay(day)])

ensure21Days(days) ==
  AsSeq([i \in 1..NumDays |->
     LET day == i - 1
         k == byDayGet(days, day)
     IN IF k # 0
        THEN [days[k] EXCEPT !.day = day, !.phase = phaseForDay(day)]
        ELSE DefaultDay(day)])

addModule(d, id) == [d EXCEPT !.moduleIds = Append(@, id)]

addModuleEvery(days, id) == AsSeq([i \in 1..Len(days) |-> addModule(days[i], id)])

addModuleOnDays(days, id, dayNumbers) ==
  AsSeq([i \in 1..Len(days) |->
     IF days[i].day \in dayNumbers THEN addModule(days[i], id) ELSE days[i]])

addModuleInPhase(days, id, phase) ==
  AsSeq([i \in 1..Len(days) |->
     IF days[i].phase = phase THEN addModule(days[i], id) ELSE days[i]])

(***************************************************************************)
(* generatePlan.ts: applyRules                                             *)
(***************************************************************************)
AfterGlobal(days) == addModuleEvery(days, "track_sleep")

\* rule 2 treating torso like leg_foot
AfterRegion_torsoDaily(days, recovery_region) ==
  IF ~Truthy(recovery_region) THEN days
  ELSE IF recovery_region \in {"leg_foot", "face_neck", "torso"}
       THEN addModuleEvery(days, "track_swelling")
  ELSE IF recovery_region = "arm_hand" THEN addModuleInPhase(days, "track_swelling", "early")
  ELSE days

AfterRegion(days, recovery_region) ==
  IF ~Truthy(recovery_region) THEN days
  ELSE IF recovery_region \in {"leg_foot", "face_neck"}
       THEN addModuleEvery(days, "track_swelling")
  ELSE IF recovery_region = "arm_hand" THEN addModuleInPhase(days, "track_swelling", "early")
  ELSE IF recovery_region = "torso" THEN addModuleInPhase(days, "track_swelling", "early")
  ELSE days

\* rule 3 adding rf_infection to the mid phase whatever the status
AfterIncision_alwaysMid(days, incision_status) ==
  IF ~Truthy(incision_status) THEN days
  ELSE addModuleInPhase(
         addModuleInPhase(
           addModuleInPhase(addModuleInPhase(days, "edu_wound", "early"), "edu_wound", "mid"),
           "rf_infection", "early"),
         "rf_infection", "mid")

AfterIncision(days, incision_status) ==
  IF ~Truthy(incision_status) THEN days
  ELSE LET d1 == addModuleInPhase(days, "edu_wound", "early")
           d2 == addModuleInPhase(d1, "edu_wound", "mid")
           d3 == addModuleInPhase(d2, "rf_infection", "early")
       IN IF incision_status \in {"open_wound", "drains_present"}
          THEN addModuleInPhase(d3, "rf_infection", "mid")
          ELSE d3

\* rule 4 firing on mild as well
AfterMobility_mild(days, mobility_impact) ==
  IF Truthy(mobility_impact) /\ mobility_impact \in {"mild", "limited", "non_weight_bearing"}
  THEN addModuleInPhase(days, "edu_mobility", "mid")
  ELSE days

AfterMobility(days, mobility_impact) ==
  IF Truthy(mobility_impact) /\ mobility_impact \in {"limited", "non_weight_bearing"}
  THEN addModuleInPhase(days, "edu_mobility", "mid")
  ELSE days

AfterDiscomfort(days, discomfort_pattern) ==
  IF Truthy(discomfort_pattern) /\ discomfort_pattern = "escalating"
  THEN addModuleInPhase(addModuleInPhase(days, "rf_worsening", "early"), "rf_worsening", "mid")
  ELSE days

\* rule 6 with the 7-day reminder one day late
AfterFollowUp_dayLate(days, follow_up_expectation) ==
  IF ~Truthy(follow_up_expectation) THEN days
  ELSE IF follow_up_expectation = "within_7_days"
       THEN addModuleOnDays(days, "edu_followup", {6, 7})
  ELSE IF follow_up_expectation = "within_14_days"
       THEN addModuleOnDays(days, "edu_followup", {12, 13})
  ELSE IF follow_up_expectation = "within_30_days"
       THEN addModuleOnDays(days, "edu_followup", {19, 20})
  ELSE days

AfterFollowUp(days, follow_up_expectation) ==
  IF ~Truthy(follow_up_expectation) THEN days
  ELSE LET d1 == IF follow_up_expectation = "within_7_days"
                 THEN addModuleOnDays(days, "edu_followup", {5, 6}) ELSE days
           d2 == IF follow_up_expectation = "within_14_days"
                 THEN addModuleOnDays(d1, "edu_followup", {12, 13}) ELSE d1
       IN IF follow_up_expectation = "within_30_days"
          THEN addModuleOnDays(d2, "edu_followup", {19, 20}) ELSE d2

\* rule 7 firing on the value "extended"
AfterDuration_extended(days, recovery_duration) ==
  IF Truthy(recovery_duration) /\ recovery_duration = "extended"
  THEN addModuleInPhase(days, "edu_longterm", "late")
  ELSE days

AfterDuration(days, recovery_duration) ==
  IF Truthy(recovery_duration) /\ recovery_duration = "extended_22_plus"
  THEN addModuleInPhase(days, "edu_longterm", "late")
  ELSE days

\* the tokens applyRules pushes, in order
RuleTrace(cfg) ==
  LET recovery_region == getStr(cfg, "recovery_region")
      recovery_duration == getStr(cfg, "recovery_duration")
      mobility_impact == getStr(cfg, "mobility_impact")
      incision_status == getStr(cfg, "incision_status")
      discomfort_pattern == getStr(cfg, "discomfort_pattern")
      follow_up_expectation == getStr(cfg, "follow_up_expectation")
  IN <<"global:add_track_sleep_daily">>
     \o (IF ~Truthy(recovery_region) THEN <<>>
         ELSE <<"region:" \o recovery_region>>
              \o (IF recovery_region \in {"leg_foot", "face_neck"}
                  THEN <<"region:add_track_swelling_daily">>
                  ELSE IF recovery_region \in {"arm_hand", "torso"}
                       THEN <<"region:add_track_swelling_early">>
                       ELSE <<>>))
     \o (IF ~Truthy(incision_status) THEN <<>>
         ELSE <<"incision:" \o incision_status>>
              \o (IF incision_status \in {"open_wound", "drains_present"}
                  THEN <<"incision:rf_infection_early_mid">>
                  ELSE <<"incision:rf_infection_early">>))
     \o (IF ~Truthy(mobility_impact) THEN <<>>
         ELSE <<"mobility:" \o mobility_impact>>
              \o (IF mobility_impact \in {"limited", "non_weight_bearing"}
                  THEN <<"mobility:add_edu_mobility_mid">> ELSE <<>>))
     \o (IF ~Truthy(discomfort_pattern) THEN <<>>
         ELSE <<"discomfort:" \o discomfort_pattern>>
              \o (IF discomfort_pattern = "escalating"
                  THEN <<"discomfort:rf_worsening_early_mid">> ELSE <<>>))
     \o (IF ~Truthy(follow_up_expectation) THEN <<>>
         ELSE <<"followup:" \o follow_up_expectation,
                "followup:add_edu_followup_reminder_days">>)
     \o (IF ~Truthy(recovery_duration) THEN <<>>
         ELSE <<"duration:" \o recovery_duration>>
              \o (IF recovery_duration = "extended_22_plus"
                  THEN <<"duration:add_edu_longterm_late">> ELSE <<>>))

applyRules(days, cfg) ==
  LET g == AfterGlobal(days)
      r == AfterRegion(g, getStr(cfg, "recovery_region"))
      i == AfterIncision(r, getStr(cfg, "incision_status"))
      m == AfterMobility(i, getStr(cfg, "mobility_impact"))
      p == AfterDiscomfort(m, getStr(cfg, "discomfort_pattern"))
      f == AfterFollowUp(p, getStr(cfg, "follow_up_expectation"))
  IN [days |-> AfterDuration(f, getStr(cfg, "recovery_duration")),
      appliedRules |-> RuleTrace(cfg)]

ConfigKeys ==
  {"recovery_region", "recovery_duration", "mobility_impact", "incision_status",
   "discomfort_pattern", "follow_up_expectation"}

\* cfg = isPlainObject(input.config) ? input.config : {}
cfgOf(c) == IF isPlainObject(c) THEN c ELSE [k \in ConfigKeys |-> Null]

(***************************************************************************)
(* enforceClinicOverrides.ts                                               *)
(***************************************************************************)
AllStrings(items) == \A i \in 1..Len(items) : IsString(items[i])

\* z.array(z.string()).optional()
StringArrayOptional(l) == l.t = "undef" \/ (l.t = "arr" /\ AllStrings(l.items))

\* the schema without .strict(), and with the cap's lower bound only
SchemaValid_notStrict(o) ==
  /\ o.t = "obj"
  /\ o.version.t = "undef" \/ (o.version.t = "num" /\ IsInteger(o.version) /\ o.version.twice > 0)
  /\ o.note.t \in {"undef", "str"}
  /\ StringArrayOptional(o.requiredModuleIds)
  /\ StringArrayOptional(o.forbiddenModuleIds)
  /\ o.requiredByPhase.t \in {"undef", "obj"}
  /\ o.requiredByDay.t \in {"undef", "obj"}
  /\ \/ o.maxModulesPerDay.t = "undef"
     \/ o.maxModulesPerDay.t = "num" /\ IsInteger(o.maxModulesPerDay)
        /\ Floor(o.maxModulesPerDay) >= CapMin

\* ClinicOverridesSchema.safeParse(overridesJson).success
SchemaValid(o) ==
  /\ o.t = "obj"
  /\ ~o.unknownKey
  /\ \/ o.version.t = "undef"
     \/ o.version.t = "num" /\ IsInteger(o.version) /\ o.version.twice > 0
  /\ o.note.t \in {"undef", "str"}
  /\ StringArrayOptional(o.requiredModuleIds)
  /\ StringArrayOptional(o.forbiddenModuleIds)
  /\ \/ o.requiredByPhase.t = "undef"
     \/ /\ o.requiredByPhase.t = "obj"
        /\ StringArrayOptional(o.requiredByPhase.early)
        /\ StringArrayOptional(o.requiredByPhase.mid)
        /\ StringArrayOptional(o.requiredByPhase.late)
  /\ \/ o.requiredByDay.t = "undef"
     \/ /\ o.requiredByDay.t = "obj"
        /\ \A k \in 1..Len(o.requiredByDay.entries) :
             LET l == o.requiredByDay.entries[k].list
             IN l.t = "arr" /\ AllStrings(l.items)
  /\ \/ o.maxModulesPerDay.t = "undef"
     \/ /\ o.maxModulesPerDay.t = "num"
        /\ IsInteger(o.maxModulesPerDay)
        /\ Floor(o.maxModulesPerDay) >= CapMin
        /\ Floor(o.maxModulesPerDay) <= CapMax

\* !overridesJson
Falsy(v) == v.t \in {"undef", "null", "falsy"}

RECURSIVE UniqFrom(_, _)
UniqFrom(ids, seen) ==
  IF ids = <<>> THEN <<>>
  ELSE IF Head(ids) \in seen THEN UniqFrom(Tail(ids), seen)
       ELSE <<Head(ids)>> \o UniqFrom(Tail(ids), seen \cup {Head(ids)})

uniqPreserveOrder(ids) == UniqFrom(ids, {})

removeAll(ids, toRemove) == LET Keep(id) == id \notin toRemove IN SelectSeq(ids, Keep)

\* addAll adding nothing
addAll_skips(ids, toAdd) == uniqPreserveOrder(ids)

\* addAll putting the required ids in front
addAll_prepends(ids, toAdd) == uniqPreserveOrder(toAdd \o ids)

addAll(ids, toAdd) == uniqPreserveOrder(ids \o toAdd)

\* stableCap keeping one id too many
stableCap_offByOne(ids, max) ==
  IF Len(ids) <= max + 1 THEN [kept |-> ids, removed |-> <<>>]
  ELSE [kept |-> SubSeq(ids, 1, max + 1), removed |-> SubSeq(ids, max + 2, Len(ids))]

\* stableCap trimming from the front
stableCap_keepsLast(ids, max) ==
  IF Len(ids) <= max THEN [kept |-> ids, removed |-> <<>>]
  ELSE [kept |-> SubSeq(ids, Len(ids) - max + 1, Len(ids)),
        removed |-> SubSeq(ids, 1, Len(ids) - max)]

stableCap(ids, max) ==
  IF Len(ids) <= max THEN [kept |-> ids, removed |-> <<>>]
  ELSE [kept |-> SubSeq(ids, 1, max), removed |-> SubSeq(ids, max + 1, Len(ids))]

normalizeDayNumber(v) == Max(0, Min(MaxDayNumber, v))

normalizePhase(v) == IF v \in ValidPhases THEN v ELSE ""

\* names every plain object answers to without having them as keys: modulesDict[id]
\* reads the property through Object.prototype, whose members are functions
InheritedKeys == {"constructor"}

\* the value of lib[id] is neither undefined nor null
Defined(lib, id) == id \in lib.def \cup lib.zero \/ (id \in InheritedKeys /\ id \notin lib.nul)

\* Boolean(modulesDict[id]): the property is there and its value is not falsy
Known(modulesDict, id) ==
  \/ id \in modulesDict.def
  \/ id \in InheritedKeys /\ id \notin modulesDict.nul \cup modulesDict.zero

Event(type, day, moduleId, removed, max, reason) ==
  [type |-> type, day |-> day, moduleId |-> moduleId, removed |-> removed,
   max |-> max, reason |-> reason]

InvalidEvent(message) == Event("clinic_overrides_invalid", -1, "", <<>>, 0, message)

RECURSIVE UnknownEvents(_, _, _)
UnknownEvents(list, modulesDict, reason) ==
  IF list = <<>> THEN <<>>
  ELSE (IF Known(modulesDict, Head(list)) THEN <<>>
        ELSE <<Event("clinic_unknown_module_ignored", -1, Head(list), <<>>, 0, reason)>>)
       \o UnknownEvents(Tail(list), modulesDict, reason)

filterKnown(list, modulesDict, reason) ==
  LET IsKnown(id) == Known(modulesDict, id)
  IN [out |-> uniqPreserveOrder(SelectSeq(list, IsKnown)),
      events |-> UnknownEvents(list, modulesDict, reason)]

\* overrides.<list> ?? []
ListOrEmpty(l) == IF l.t = "arr" THEN l.items ELSE <<>>

PhaseList(o, phase) ==
  IF o.requiredByPhase.t # "obj" THEN <<>>
  ELSE IF phase = "early" THEN ListOrEmpty(o.requiredByPhase.early)
  ELSE IF phase = "mid" THEN ListOrEmpty(o.requiredByPhase.mid)
  ELSE ListOrEmpty(o.requiredByPhase.late)

ByDayEntries(o) == IF o.requiredByDay.t = "obj" THEN o.requiredByDay.entries ELSE <<>>

RECURSIVE ByDayUnknownEvents(_, _)
ByDayUnknownEvents(entries, modulesDict) ==
  IF entries = <<>> THEN <<>>
  ELSE filterKnown(Head(entries).list.items, modulesDict,
                   "requiredByDay." \o Head(entries).key).events
       \o ByDayUnknownEvents(Tail(entries), modulesDict)

\* requiredByDayKnown: every list of requiredByDay, filtered, under its key
requiredByDayKnownOf(o, modulesDict) ==
  LET entries == ByDayEntries(o)
  IN AsSeq([k \in 1..Len(entries) |->
        [key |-> entries[k].key,
         list |-> filterKnown(entries[k].list.items, modulesDict, "").out]])

\* the lookup of a day's list made under the number of the day after
dayReqOf_nextDay(requiredByDayKnown, dayNum) ==
  LET hits == {k \in 1..Len(requiredByDayKnown) :
                 requiredByDayKnown[k].key = ToString(dayNum + 1)}
  IN IF hits = {} THEN <<>> ELSE requiredByDayKnown[CHOOSE k \in hits : TRUE].list

\* requiredByDayKnown[String(dayNum)] ?? []
dayReqOf(requiredByDayKnown, dayNum) ==
  LET hits == {k \in 1..Len(requiredByDayKnown) :
                 requiredByDayKnown[k].key = ToString(dayNum)}
  IN IF hits = {} THEN <<>> ELSE requiredByDayKnown[CHOOSE k \in hits : TRUE].list

\* what enforceClinicOverrides computes from the policy before its loop over the days
Prepared(o, modulesDict) ==
  [modulesDict |-> modulesDict,
   forbiddenGlobalSet |-> Range(ListOrEmpty(o.forbiddenModuleIds)),
   requiredGlobalKnown |->
     filterKnown(ListOrEmpty(o.requiredModuleIds), modulesDict, "requiredModuleIds").out,
   requiredByPhaseKnown |->
     [early |-> filterKnown(PhaseList(o, "early"), modulesDict, "").out,
      mid |-> filterKnown(PhaseList(o, "mid"), modulesDict, "").out,
      late |-> filterKnown(PhaseList(o, "late"), modulesDict, "").out],
   requiredByDayKnown |-> requiredByDayKnownOf(o, modulesDict),
   maxModulesPerDay |-> o.maxModulesPerDay]

\* the events of an append step: one per required id the day did not have
RECURSIVE AddedEvents(_, _, _, _)
AddedEvents(req, before, dayNum, reason) ==
  IF req = <<>> THEN <<>>
  ELSE (IF Head(req) \in before THEN <<>>
        ELSE <<Event("clinic_require_added", dayNum, Head(req), <<>>, 0, reason)>>)
       \o AddedEvents(Tail(req), before, dayNum, reason)

RECURSIVE RemovedEvents(_, _)
RemovedEvents(removed, dayNum) ==
  IF removed = <<>> THEN <<>>
  ELSE <<Event("clinic_forbid_removed", dayNum, Head(removed), <<>>, 0, "forbiddenModuleIds")>>
       \o RemovedEvents(Tail(removed), dayNum)

\* step 5: moduleIds.filter((id) => Boolean(modulesDict[id]))
onlyKnown(moduleIds, modulesDict) ==
  LET IsKnown(id) == Known(modulesDict, id) IN SelectSeq(moduleIds, IsKnown)

\* step 5.5 left out
forbiddenWins_skipped(moduleIds, forbiddenGlobalSet) == moduleIds

\* step 5.5: forbidden ids are removed once more after the required ids were added
forbiddenWins(moduleIds, forbiddenGlobalSet) ==
  IF forbiddenGlobalSet # {} THEN removeAll(moduleIds, forbiddenGlobalSet) ELSE moduleIds

\* one iteration of days.map((dayObj) => ...): the new day, its audit events and
\* the list as it stands when step 6 (the cap) is reached
EnforceDay(dayObj, pre) ==
  LET dayNum == normalizeDayNumber(dayObj.day)
      phase == normalizePhase(dayObj.phase)
      modulesDict == pre.modulesDict
      forbiddenGlobalSet == pre.forbiddenGlobalSet
      requiredGlobalKnown == pre.requiredGlobalKnown
      phaseReq == IF phase = "early" THEN pre.requiredByPhaseKnown.early
                  ELSE IF phase = "mid" THEN pre.requiredByPhaseKnown.mid
                  ELSE IF phase = "late" THEN pre.requiredByPhaseKnown.late
                  ELSE <<>>
      dayReq == dayReqOf(pre.requiredByDayKnown, dayNum)
      m0 == uniqPreserveOrder(dayObj.moduleIds)
      \* 1) remove forbidden modules first
      m1 == IF forbiddenGlobalSet # {} THEN removeAll(m0, forbiddenGlobalSet) ELSE m0
      NotInM1(id) == id \notin Range(m1)
      ev1 == IF forbiddenGlobalSet # {} THEN RemovedEvents(SelectSeq(m0, NotInM1), dayNum)
             ELSE <<>>
      \* 2) add required globals
      m2 == IF Len(requiredGlobalKnown) > 0 THEN addAll(m1, requiredGlobalKnown) ELSE m1
      ev2 == AddedEvents(requiredGlobalKnown, Range(m1), dayNum, "requiredModuleIds")
      \* 3) add required by phase
      m3 == IF Len(phaseReq) > 0 THEN addAll(m2, phaseReq) ELSE m2
      ev3 == AddedEvents(phaseReq, Range(m2), dayNum, "requiredByPhase." \o phase)
      \* 4) add required by day
      m4 == IF Len(dayReq) > 0 THEN addAll(m3, dayReq) ELSE m3
      ev4 == AddedEvents(dayReq, Range(m3), dayNum, "requiredByDay." \o ToString(dayNum))
      \* 5) only known module ids are output
      m5 == onlyKnown(m4, modulesDict)
      \* 5.5) forbidden wins even if also listed as required
      m55 == forbiddenWins(m5, forbiddenGlobalSet)
      \* 6) cap per-day modules
      hasCap == pre.maxModulesPerDay.t = "num" /\ pre.maxModulesPerDay.twice > 0
      max == Floor(pre.maxModulesPerDay)
      capped == IF hasCap THEN stableCap(m55, max) ELSE [kept |-> m55, removed |-> <<>>]
      ev6 == IF hasCap /\ Len(capped.removed) > 0
             THEN <<Event("clinic_cap_trimmed", dayNum, "", capped.removed, max,
                          "maxModulesPerDay")>>
             ELSE <<>>
  IN [day |-> [dayObj EXCEPT !.day = dayNum,
                             !.phase = IF phase # "" THEN phase ELSE dayObj.phase,
                             !.moduleIds = capped.kept],
      events |-> ev1 \o ev2 \o ev3 \o ev4 \o ev6,
      preCap |-> m55]

\* the per-day events, last day first
DayEvents_descending(enforcedDays) ==
  LET upTo[i \in 0..Len(enforcedDays)] ==
        IF i = 0 THEN <<>> ELSE enforcedDays[i].events \o upTo[i - 1]
  IN upTo[Len(enforcedDays)]

\* the per-day events, in day order
DayEvents(enforcedDays) ==
  LET upTo[i \in 0..Len(enforcedDays)] ==
        IF i = 0 THEN <<>> ELSE upTo[i - 1] \o enforcedDays[i].events
  IN upTo[Len(enforcedDays)]

\* the events filterKnown pushes while the required lists are pre-filtered
PreFilterEvents(o, modulesDict) ==
  filterKnown(ListOrEmpty(o.requiredModuleIds), modulesDict, "requiredModuleIds").events
  \o filterKnown(PhaseList(o, "early"), modulesDict, "requiredByPhase.early").events
  \o filterKnown(PhaseList(o, "mid"), modulesDict, "requiredByPhase.mid").events
  \o filterKnown(PhaseList(o, "late"), modulesDict, "requiredByPhase.late").events
  \o ByDayUnknownEvents(ByDayEntries(o), modulesDict)

JNull == [t |-> "null", twice |-> 0]
NoNote == [t |-> "undef", s |-> ""]
NullNote == [t |-> "null", s |-> ""]

\* which of its return statements enforceClinicOverrides leaves by
EnforcePath(plan, o) ==
  IF Falsy(o) THEN "none"
  ELSE IF ~SchemaValid(o) THEN "invalid"
  ELSE IF ~isPlainObject(plan.modules) THEN "shape"
  ELSE IF plan.schemaVersion # SchemaVersion THEN "version"
  ELSE "enforced"

enforceClinicOverrides(plan, o) ==
  LET path == EnforcePath(plan, o)
  IN IF path \in {"none", "version"} THEN [plan |-> plan, events |-> <<>>]
     ELSE IF path = "invalid"
     THEN [plan |-> plan,
           events |-> <<InvalidEvent(
             "Clinic overridesJson failed validation; ignoring overrides.")>>]
     ELSE IF path = "shape"
     THEN [plan |-> plan,
           events |-> <<InvalidEvent(
             "Plan shape is not compatible with enforcement; ignoring overrides.")>>]
     ELSE LET modulesDict == plan.modules
              pre == Prepared(o, modulesDict)
              enforcedDays == AsSeq([i \in 1..Len(plan.days) |-> EnforceDay(plan.days[i], pre)])
          IN [plan |-> [plan EXCEPT
                          !.days = AsSeq([i \in 1..Len(plan.days) |-> enforcedDays[i].day]),
                          !.meta.clinicOverrides =
                            [version |-> IF o.version.t = "undef" THEN JNull ELSE o.version,
                             note |-> IF o.note.t = "undef" THEN NullNote ELSE o.note]],
              events |-> PreFilterEvents(o, modulesDict)
                         \o DayEvents(enforcedDays)]

\* the callback writing its list into the day object it was given
dayAfterEnforce_assigns(dayObj, newDay) == [dayObj EXCEPT !.moduleIds = newDay.moduleIds]

\* the day object given to the days.map callback, after the callback: the callback
\* reads dayObj, works on the copy uniqPreserveOrder returns and builds
\* { ...dayObj, day, phase, moduleIds } without assigning to dayObj
dayAfterEnforce(dayObj, newDay) == dayObj

\* the plan object given to enforceClinicOverrides, after the call
planAfterEnforce(plan, o) ==
  IF EnforcePath(plan, o) # "enforced" THEN plan
  ELSE LET pre == Prepared(o, plan.modules)
       IN [plan EXCEPT !.days = AsSeq([i \in 1..Len(plan.days) |->
             dayAfterEnforce(plan.days[i], EnforceDay(plan.days[i], pre).day)])]

\* the value returned is the plan object that was given (return plan), and not the
\* object built at the end (return newPlan)
returnsInput(plan, o) == EnforcePath(plan, o) # "enforced"

(***************************************************************************)
(* generatePlan.ts: generatePlan                                           *)
(***************************************************************************)
EmptyDict == [t |-> "obj", def |-> {}, nul |-> {}, zero |-> {}]

NoDays == [t |-> "undef", items |-> <<>>]

NoModules == [t |-> "undef", def |-> {}, nul |-> {}, zero |-> {}]

\* base = isPlainObject(templatePlanJson) ? templatePlanJson : {}
baseOf(tpl) ==
  IF isPlainObject(tpl) THEN tpl
  ELSE [t |-> "obj", title |-> Null, disclaimer |-> Null, modules |-> NoModules,
        days |-> NoDays]

baseDaysOf(tpl) ==
  LET baseDaysRaw == asArray(baseOf(tpl).days)
  IN AsSeq([k \in 1..Len(baseDaysRaw) |-> normalizeDayV2(baseDaysRaw[k], k - 1)])

\* the day objects after applyRules, before their moduleIds are replaced by dedupe's
ruledDaysOf(tpl, cfgIn) == applyRules(ensure21Days(baseDaysOf(tpl)), cfgOf(cfgIn)).days

DayBlock(d) ==
  [day |-> d.day, phase |-> d.phase, title |-> d.title,
   moduleIds |-> d.moduleIds, boxItems |-> d.boxItems]

\* planJson as composed before enforcement
planJsonOf(tpl, cfgIn, o, engineVersion, category) ==
  LET base == baseOf(tpl)
      ruled == ruledDaysOf(tpl, cfgIn)
  IN [title |-> IF IsString(base.title) THEN base.title ELSE "Recovery Plan",
      disclaimer |-> IF IsString(base.disclaimer) THEN base.disclaimer ELSE "",
      schemaVersion |-> SchemaVersion,
      modules |-> IF base.modules.t \in {"undef", "null"} THEN EmptyDict ELSE base.modules,
      clinicPolicy |-> [present |-> ~Falsy(o)],
      days |-> AsSeq([i \in 1..Len(ruled) |->
                  DayBlock([ruled[i] EXCEPT !.moduleIds = dedupe(@)])]),
      meta |-> [engineVersion |-> engineVersion,
                category |-> category,
                schemaVersion |-> SchemaVersion,
                config |-> cfgIn,
                appliedRules |-> dedupe(RuleTrace(cfgOf(cfgIn))),
                clinicOverrides |-> [version |-> JNull, note |-> NullNote],
                clinicAuditEvents |-> <<>>]]

\* moduleIds.map((id) => lib[id]).filter((m) => m !== undefined && m !== null);
\* a resolved definition is named by its id
modulesResolvedOf(moduleIds, modules) ==
  LET lib == IF isPlainObject(modules) THEN modules ELSE EmptyDict
      Resolves(id) == Defined(lib, id)
  IN SelectSeq(moduleIds, Resolves)

generatePlan(tpl, cfgIn, o, engineVersion, category) ==
  LET planJson == planJsonOf(tpl, cfgIn, o, engineVersion, category)
      enforced == enforceClinicOverrides(planJson, o)
      p == enforced.plan
  IN [planJson |->
        [p EXCEPT
           !.days = AsSeq([i \in 1..Len(p.days) |->
                       LET d == p.days[i]
                       IN [day |-> d.day, phase |-> d.phase, title |-> d.title,
                           moduleIds |-> d.moduleIds, boxItems |-> d.boxItems,
                           modulesResolved |-> modulesResolvedOf(d.moduleIds, p.modules)]]),
           !.meta.clinicAuditEvents = enforced.events],
      configJson |-> cfgIn]

\* the template value after the call: addModule pushes into the array object a
\* working day holds, which is the template's own array only if the day shares it
templateAfter(tpl, cfgIn) ==
  IF ~isPlainObject(tpl) \/ tpl.days.t # "arr" THEN tpl
  ELSE IF \A k \in 1..Len(tpl.days.items) : ~normalizeDayV2(tpl.days.items[k], k - 1).shared
  THEN tpl
  ELSE LET ruled == ruledDaysOf(tpl, cfgIn)
           Holder(k) == {i \in 1..Len(ruled) : ruled[i].src = k /\ ruled[i].shared}
       IN [tpl EXCEPT !.days.items =
             AsSeq([k \in 1..Len(tpl.days.items) |->
                IF Holder(k) = {} THEN tpl.days.items[k]
                ELSE [tpl.days.items[k] EXCEPT
                        !.moduleIds.items = ruled[CHOOSE i \in Holder(k) : TRUE].moduleIds]])]

(***************************************************************************)
(* Inputs the model draws                                                  *)
(***************************************************************************)
RawDay(t, day, phase, title, moduleIds, boxItems) ==
  [t |-> t, day |-> day, phase |-> phase, title |-> title,
   moduleIds |-> moduleIds, boxItems |-> boxItems]

\* a days entry that is no object (null)
RawNull == RawDay("null", Undef, "", NoTitle, NoList, NoList)

\* day -3 (clamped to 0) with a phase of its own, an id the rules add too and an id
\* no dictionary has
RawArrival ==
  RawDay("obj", Num(-6), "late", "Arrival",
         Arr(<<"custom_a", "track_sleep", "ghost_x">>), Arr(<<"box_gauze", "#42">>))

\* day 5.5, ids that need trimming, a non-string id and a blank id
RawPadded ==
  RawDay("obj", Num(11), "", NoTitle,
         Arr(<<" track_pain ", "track_pain", "#42", "   ", "edu_followup", "custom_b">>),
         NotAnArray)

\* day 25 (clamped to 20), an invalid phase, many ids
RawBeyond ==
  RawDay("obj", Num(50), "bogus", "Last",
         Arr(<<"custom_a", "custom_b", "track_swelling", "rf_infection", "ghost_x">>),
         Arr(<<"box_tape">>))

\* day NaN (the array index is used), a valid phase, moduleIds that is no array
RawIndexed == RawDay("obj", NaN, "mid", NoTitle, NotAnArray, Arr(<<"box_tape">>))

RawDays == {RawNull, RawArrival, RawPadded, RawBeyond, RawIndexed}

\* the sequences of at most n distinct elements of S
RECURSIVE SeqsUpTo(_, _)
SeqsUpTo(S, n) ==
  IF n = 0 THEN {<<>>}
  ELSE LET shorter == SeqsUpTo(S, n - 1)
       IN shorter \cup UNION {{Append(q, x) : x \in S \ Range(q)} : q \in shorter}

LibraryIds ==
  {"checkin_overall", "track_pain", "rf_emergency", "rf_worsening", "track_sleep",
   "track_swelling", "edu_wound", "rf_infection", "edu_mobility", "edu_followup",
   "edu_longterm", "custom_a", "custom_b"}

Dict(def, nul, zero) == [t |-> "obj", def |-> def, nul |-> nul, zero |-> zero]

\* a library that defines every id but ghost_x
FullLibrary == Dict(LibraryIds, {}, {})

\* a library that lacks the rule modules; rf_emergency is null, rf_worsening is 0
PartialLibrary ==
  Dict({"checkin_overall", "track_pain", "track_sleep", "track_swelling", "custom_a"},
       {"rf_emergency"}, {"rf_worsening"})

\* modules that is an array
ArrayModules == [t |-> "arr", def |-> {}, nul |-> {}, zero |-> {}]

ModulesValues == {FullLibrary, PartialLibrary, NoModules, ArrayModules}

\* days that is absent, no array, or an array of at most n entries
DaysValues(n) ==
  {NoDays, [t |-> "str", items |-> <<>>]}
  \cup {[t |-> "arr", items |-> q] : q \in SeqsUpTo(RawDays, n)}

NonObjectTemplate(t) ==
  [t |-> t, title |-> Null, disclaimer |-> Null, modules |-> NoModules, days |-> NoDays]

Templates ==
  {NonObjectTemplate(t) : t \in {"undef", "null", "str"}}
  \cup {[t |-> "obj", title |-> "Knee plan", disclaimer |-> Null, modules |-> m, days |-> d] :
          m \in ModulesValues, d \in DaysValues(MaxTemplateDays - 1)}
  \cup {[t |-> "obj", title |-> "Knee plan", disclaimer |-> Null, modules |-> FullLibrary,
          days |-> d] : d \in DaysValues(MaxTemplateDays)}

Config(t, region, duration, mobility, incision, discomfort, followup) ==
  [t |-> t, recovery_region |-> region, recovery_duration |-> duration,
   mobility_impact |-> mobility, incision_status |-> incision,
   discomfort_pattern |-> discomfort, follow_up_expectation |-> followup]

ConfigA ==
  Config("obj", "leg_foot", "standard_15_21", "limited", "open_wound", "escalating",
         "within_7_days")

ConfigB ==
  Config("obj", "arm_hand", "extended_22_plus", "none", "sutures_staples",
         "expected_soreness", "within_30_days")

\* a config that is no object
ConfigNone == Config("str", Null, Null, Null, Null, Null, Null)

Configs == {ConfigA, ConfigB, ConfigNone}

NoByPhase == [t |-> "undef", early |-> NoList, mid |-> NoList, late |-> NoList]
ByPhase(early, mid, late) == [t |-> "obj", early |-> early, mid |-> mid, late |-> late]
NoByDay == [t |-> "undef", entries |-> <<>>]
ByDay(entries) == [t |-> "obj", entries |-> entries]
DayEntry(key, items) == [key |-> key, list |-> Arr(items)]
Note(s) == [t |-> "str", s |-> s]

Policy(unknownKey, version, note, required, forbidden, byPhase, byDay, max) ==
  [t |-> "obj", unknownKey |-> unknownKey, version |-> version, note |-> note,
   requiredModuleIds |-> required, forbiddenModuleIds |-> forbidden,
   requiredByPhase |-> byPhase, requiredByDay |-> byDay, maxModulesPerDay |-> max]

\* {} : the policy with no keys
EmptyPolicy == Policy(FALSE, Undef, NoNote, NoList, NoList, NoByPhase, NoByDay, Undef)

NonObjectPolicy(t) == [EmptyPolicy EXCEPT !.t = t]

AbsentPolicies == {NonObjectPolicy("undef"), NonObjectPolicy("null"), NonObjectPolicy("falsy")}

ValidPolicies ==
  { EmptyPolicy,
    \* forbid and require the same id
    Policy(FALSE, Num(6), Note("knee clinic"),
           Arr(<<"track_swelling", "custom_a", "ghost_x", "constructor">>),
           Arr(<<"track_swelling", "track_sleep">>), NoByPhase, NoByDay, Undef),
    Policy(FALSE, Undef, NoNote, NoList, NoList, NoByPhase, NoByDay, Num(4)),
    Policy(FALSE, Undef, NoNote, Arr(<<"custom_a", "custom_b">>), NoList,
           NoByPhase, NoByDay, Num(2)),
    \* scoped requirements, some of them forbidden
    Policy(FALSE, Undef, NoNote, NoList, Arr(<<"rf_infection", "checkin_overall">>),
           ByPhase(Arr(<<"custom_b", "rf_infection">>), NoList, Arr(<<"custom_a">>)),
           ByDay(<<DayEntry("5", <<"rf_infection", "custom_a">>),
                   DayEntry("20", <<"custom_b", "ghost_x">>),
                   DayEntry("x", <<"custom_a">>)>>),
           Num(100)),
    Policy(FALSE, Undef, NoNote, Arr(<<"edu_longterm">>), Arr(<<"track_pain">>),
           ByPhase(NoList, Arr(<<"custom_a", "ghost_x">>), NoList),
           ByDay(<<DayEntry("0", <<"custom_b">>)>>), Num(16)),
    \* scoped requirements and no cap; the keys "21" and "07" are no day's number
    Policy(FALSE, Undef, NoNote, NoList, Arr(<<"track_pain">>),
           ByPhase(Arr(<<"edu_mobility">>), NoList, Arr(<<"custom_a">>)),
           ByDay(<<DayEntry("7", <<"custom_b">>),
                   DayEntry("21", <<"edu_longterm">>),
                   DayEntry("07", <<"edu_followup">>)>>),
           Undef) }

InvalidPolicies ==
  { \* a string and an array
    NonObjectPolicy("str"),
    NonObjectPolicy("arr"),
    \* an unknown key
    Policy(TRUE, Undef, NoNote, NoList, Arr(<<"track_sleep">>), NoByPhase, NoByDay, Num(4)),
    \* maxModulesPerDay 0, 51 and 2.5
    Policy(FALSE, Undef, NoNote, NoList, NoList, NoByPhase, NoByDay, Num(5)),
    Policy(FALSE, Undef, NoNote, NoList, NoList, NoByPhase, NoByDay, Num(0)),
    Policy(FALSE, Undef, NoNote, Arr(<<"custom_a">>), NoList, NoByPhase, NoByDay, Num(102)),
    \* an id list that is no array, and one that holds a number
    Policy(FALSE, Undef, NoNote, NotAnArray, Arr(<<"track_sleep">>), NoByPhase, NoByDay, Undef),
    Policy(FALSE, Undef, NoNote, NoList, Arr(<<"track_sleep", "#42">>), NoByPhase, NoByDay,
           Undef),
    \* version 0
    Policy(FALSE, Num(0), NoNote, Arr(<<"custom_a">>), NoList, NoByPhase, NoByDay, Undef) }

Policies == AbsentPolicies \cup ValidPolicies \cup InvalidPolicies

EngineVersion == "v1"

Category == "general_outpatient"

(***************************************************************************)
(* The activation code of routes/activation/index.ts and the plan          *)
(* instances of routes/plan/index.ts: one ActivationCode row, the          *)
(* RecoveryPlanInstance table with its unique index on activationCodeId,   *)
(* and the requests that claim the code, generate a plan and regenerate    *)
(* it. A handler's step ends where it awaits the database again.           *)
(***************************************************************************)
Users == {"alice", "bob"}

NoUser == "#null"

\* the id of the one activation code
CodeId == "code"

\* the ActivationCode row before any claim
UnusedCode == [status |-> "UNUSED", claimedByUserId |-> NoUser]

\* tx.activationCode.updateMany({ where: { id, status: "UNUSED" }, data }):
\* the row afterwards, and the count of rows updated
updateMany(row, userId) ==
  IF row.status = "UNUSED"
  THEN [row |-> [status |-> "CLAIMED", claimedByUserId |-> userId], count |-> 1]
  ELSE [row |-> row, count |-> 0]

\* recoveryPlanInstance.findFirst({ where: { activationCodeId } })
InstancesOf(rows, codeId) == {x \in rows : x.activationCodeId = codeId}

\* RecoveryPlanInstance_activationCodeId_key: the insert the index refuses
UniqueViolation_noIndex(rows, row) == FALSE

UniqueViolation(rows, row) == InstancesOf(rows, row.activationCodeId) # {}

\* recoveryPlanInstance.create: the row inserted
NewInstance(rows, userId) ==
  [id |-> Cardinality(rows) + 1, userId |-> userId, activationCodeId |-> CodeId,
   regenerated |-> 0]

\* the response a handler of these routes ended with: an error thrown in
\* POST /activation/claim is caught by nothing and is the request's end
Reply(route, userId, code, plan) ==
  [route |-> route, userId |-> userId, code |-> code, plan |-> plan]

NoPlan == 0

NoReply == Reply("none", NoUser, "none", NoPlan)

\* a request that is not in its handler
IdleClaim ==
  [pc |-> "idle", userId |-> NoUser, hasConfig |-> FALSE, activation |-> UnusedCode]

\* the values of the tables while the other parts are exercised
StoreQuiet ==
  /\ activation = UnusedCode
  /\ instances = {}
  /\ claims = [r \in ClaimRequests |-> IdleClaim]
  /\ generates = [r \in GenerateRequests |-> "idle"]
  /\ reply = NoReply
  /\ timesClaimed = 0

\* POST /activation/claim, steps 1 to 3: the code is looked up, the user is
\* created or authenticated, and a code the row read shows as claimed by
\* someone else is refused
ClaimLookup(r) ==
  /\ claims[r].pc = "idle"
  /\ \E userId \in Users, hasConfig \in BOOLEAN :
       IF /\ activation.status = "CLAIMED"
          /\ activation.claimedByUserId # NoUser
          /\ activation.claimedByUserId # userId
       THEN /\ reply' = Reply("claim", userId, "CODE_ALREADY_CLAIMED", NoPlan)
            /\ UNCHANGED claims
       ELSE /\ reply' = NoReply
            /\ claims' = [claims EXCEPT ![r] =
                 [pc |-> "lookedUp", userId |-> userId, hasConfig |-> hasConfig,
                  activation |-> activation]]
  /\ UNCHANGED <<engineVars, authVars, activation, instances, generates, timesClaimed>>

\* steps 4 to 9: an instance that exists for the code is returned; without
\* a config a code read as claimed is answered NEEDS_CONFIG
ClaimFindExisting(r) ==
  /\ claims[r].pc = "lookedUp"
  /\ IF InstancesOf(instances, CodeId) # {}
     THEN /\ \E x \in InstancesOf(instances, CodeId) :
               reply' = Reply("claim", claims[r].userId, "READY", x.id)
          /\ claims' = [claims EXCEPT ![r] = IdleClaim]
     ELSE IF ~claims[r].hasConfig /\ claims[r].activation.status # "UNUSED"
     THEN /\ reply' = Reply("claim", claims[r].userId, "NEEDS_CONFIG", NoPlan)
          /\ claims' = [claims EXCEPT ![r] = IdleClaim]
     ELSE /\ reply' = NoReply
          /\ claims' = [claims EXCEPT ![r].pc =
               IF claims[r].activation.status = "UNUSED" THEN "claiming" ELSE "finding"]
  /\ UNCHANGED <<engineVars, authVars, activation, instances, generates, timesClaimed>>

\* steps 7 and 10 for a code read as UNUSED, one transaction: the guarded
\* update claims the code or throws; with a config the instance is looked
\* for and created. The update holds the row to the commit, and no other
\* handler creates an instance for a code it has not read as CLAIMED.
ClaimTransaction(r) ==
  /\ claims[r].pc = "claiming"
  /\ claims' = [claims EXCEPT ![r] = IdleClaim]
  /\ \A updated \in {updateMany(activation, claims[r].userId)} :
     \A created \in {NewInstance(instances, claims[r].userId)} :
       IF updated.count # 1
       THEN /\ reply' = Reply("claim", claims[r].userId, "Error: CODE_ALREADY_CLAIMED", NoPlan)
            /\ UNCHANGED <<activation, instances, timesClaimed>>
       ELSE IF ~claims[r].hasConfig
       THEN /\ activation' = updated.row
            /\ timesClaimed' = timesClaimed + 1
            /\ reply' = Reply("claim", claims[r].userId, "NEEDS_CONFIG", NoPlan)
            /\ UNCHANGED instances
       ELSE IF InstancesOf(instances, CodeId) # {}
       THEN /\ activation' = updated.row
            /\ timesClaimed' = timesClaimed + 1
            /\ \E x \in InstancesOf(instances, CodeId) :
                 reply' = Reply("claim", claims[r].userId, "READY", x.id)
            /\ UNCHANGED instances
       ELSE IF UniqueViolation(instances, created)
       THEN /\ reply' = Reply("claim", claims[r].userId, "Error: P2002", NoPlan)
            /\ UNCHANGED <<activation, instances, timesClaimed>>
       ELSE /\ activation' = updated.row
            /\ timesClaimed' = timesClaimed + 1
            /\ instances' = instances \cup {created}
            /\ reply' = Reply("claim", claims[r].userId, "READY", created.id)
  /\ UNCHANGED <<engineVars, authVars, generates>>

\* step 10 for a code read as CLAIMED: the guard of the transaction
ClaimGuard(r) ==
  /\ claims[r].pc = "finding"
  /\ IF InstancesOf(instances, CodeId) # {}
     THEN /\ \E x \in InstancesOf(instances, CodeId) :
               reply' = Reply("claim", claims[r].userId, "READY", x.id)
          /\ claims' = [claims EXCEPT ![r] = IdleClaim]
     ELSE /\ reply' = NoReply
          /\ claims' = [claims EXCEPT ![r].pc = "creating"]
  /\ UNCHANGED <<engineVars, authVars, activation, instances, generates, timesClaimed>>

\* step 10 for a code read as CLAIMED: tx.recoveryPlanInstance.create
ClaimCreate(r) ==
  /\ claims[r].pc = "creating"
  /\ claims' = [claims EXCEPT ![r] = IdleClaim]
  /\ \A created \in {NewInstance(instances, claims[r].userId)} :
       IF UniqueViolation(instances, created)
       THEN /\ reply' = Reply("claim", claims[r].userId, "Error: P2002", NoPlan)
            /\ UNCHANGED instances
       ELSE /\ instances' = instances \cup {created}
            /\ reply' = Reply("claim", claims[r].userId, "READY", created.id)
  /\ UNCHANGED <<engineVars, authVars, activation, generates, timesClaimed>>

\* POST /plan/generate to the create: the user's claimed code is found and
\* no instance exists for it
GenerateCheck(r) ==
  /\ generates[r] = "idle"
  /\ \E userId \in Users :
       IF ~(activation.status = "CLAIMED" /\ activation.claimedByUserId = userId)
       THEN /\ reply' = Reply("generate", userId, "NO_CLAIMED_ACTIVATION_CODE", NoPlan)
            /\ UNCHANGED generates
       ELSE IF InstancesOf(instances, CodeId) # {}
       THEN /\ reply' = Reply("generate", userId, "PLAN_ALREADY_EXISTS", NoPlan)
            /\ UNCHANGED generates
       ELSE /\ reply' = NoReply
            /\ generates' = [generates EXCEPT ![r] = userId]
  /\ UNCHANGED <<engineVars, authVars, activation, instances, claims, timesClaimed>>

\* POST /plan/generate: prisma.recoveryPlanInstance.create, and the catch
GenerateCreate(r) ==
  /\ generates[r] # "idle"
  /\ generates' = [generates EXCEPT ![r] = "idle"]
  /\ \A created \in {NewInstance(instances, generates[r])} :
       IF UniqueViolation(instances, created)
       THEN /\ reply' = Reply("generate", generates[r], "Internal Server Error", NoPlan)
            /\ UNCHANGED instances
       ELSE /\ instances' = instances \cup {created}
            /\ reply' = Reply("generate", generates[r], "READY", created.id)
  /\ UNCHANGED <<engineVars, authVars, activation, claims, timesClaimed>>

\* GET /plan/current?regen=1: regenInstanceIfRequested updates the user's
\* instance by its id
RegenInstance ==
  /\ \E x \in instances :
       /\ x.regenerated < MaxRegens
       /\ instances' = (instances \ {x}) \cup {[x EXCEPT !.regenerated = @ + 1]}
       /\ reply' = Reply("regen", x.userId, "updated", x.id)
  /\ UNCHANGED <<engineVars, authVars, activation, claims, generates, timesClaimed>>

(***************************************************************************)
(* The account of controllers/authController.ts and middleware/requireAuth *)
(* .ts: one user row, the requests that log in on it, an access token      *)
(* signed for it and the clock. Every await of a handler ends a step, so   *)
(* that handlers of concurrent requests interleave between their database  *)
(* calls as they do on the event loop.                                     *)
(***************************************************************************)
\* lockedUntil: null
NoLock == 0

\* a payload with no tokenVersion (utils/jwt.ts before the field was added)
NoVersion == 0

\* register: the row of a new user
NewUser(verified) ==
  [tokenVersion |-> InitialTokenVersion, failedLoginAttempts |-> 0, lockedUntil |-> NoLock,
   isBanned |-> FALSE, emailVerifiedAt |-> verified]

\* signAccessToken: the payload, with the number of resets done when the row
\* it was signed from was read and when it was signed
Token(version, readAt, signedAt) ==
  [tokenVersion |-> version, readAt |-> readAt, signedAt |-> signedAt]

\* user.lockedUntil && user.lockedUntil > new Date()
Locked(u, clock) == u.lockedUntil # NoLock /\ u.lockedUntil > clock

\* requireAuth: the response to a request carrying the token
requireAuth(token, u, clock) ==
  IF u.isBanned THEN "ACCOUNT_TERMINATED"
  ELSE IF Locked(u, clock) THEN "ACCOUNT_LOCKED"
  ELSE IF token.tokenVersion # u.tokenVersion THEN "TOKEN_REVOKED"
  ELSE "next"

\* login: the update of a failed attempt, from the row read at the start
updateData(snap, clock) ==
  IF snap.failedLoginAttempts + 1 >= LockThreshold
  THEN [failedLoginAttempts |-> snap.failedLoginAttempts + 1,
        lockedUntil |-> clock + LockMinutes]
  ELSE [failedLoginAttempts |-> snap.failedLoginAttempts + 1]

\* prisma.user.update: the fields of data replace those of the row
Updated(u, data) ==
  [f \in DOMAIN u |-> IF f \in DOMAIN data THEN data[f] ELSE u[f]]

\* resetPassword: the update of the row
afterReset_keepsVersion(u) ==
  [u EXCEPT !.lockedUntil = NoLock, !.failedLoginAttempts = 0]

afterReset(u) ==
  [u EXCEPT !.tokenVersion = @ + 1, !.lockedUntil = NoLock, !.failedLoginAttempts = 0]

\* login: what the rest of the handler uses of the row it read
Snapshot(u) ==
  [failedLoginAttempts |-> u.failedLoginAttempts, tokenVersion |-> u.tokenVersion,
   emailVerifiedAt |-> u.emailVerifiedAt]

\* a request that is not in the handler
Idle == [pc |-> "idle", snap |-> Snapshot(NewUser(TRUE)), readAt |-> 0]

\* res.status(...).json(...): the response a handler ended with, and the
\* token of the request where requireAuth gave it
Response(route, token, code) == [route |-> route, token |-> token, code |-> code]

NoToken == Token(NoVersion, 0, 0)

NoResponse == Response("none", NoToken, "none")

\* the values of the account while the engine alone is exercised
AuthQuiet ==
  /\ user = NewUser(TRUE)
  /\ now = 0
  /\ logins = [r \in LoginRequests |-> Idle]
  /\ accessToken = NoToken
  /\ resetsDone = 0
  /\ response = NoResponse
  /\ failedChecks = 0

\* a registered user, and the token a client of the user presents: the one
\* the registration signed, or one signed before payloads carried a
\* tokenVersion; after a login the client keeps its token or takes the new
InitAuth ==
  /\ template = NonObjectTemplate("undef")
  /\ config = ConfigNone
  /\ overridesJson = NonObjectPolicy("undef")
  /\ calls = <<>>
  /\ user \in {NewUser(verified) : verified \in BOOLEAN}
  /\ now = 0
  /\ logins = [r \in LoginRequests |-> Idle]
  /\ accessToken \in {NoToken, Token(InitialTokenVersion, 0, 0)}
  /\ resetsDone = 0
  /\ response = NoResponse
  /\ failedChecks = 0
  /\ StoreQuiet

\* a history counter, which stops counting at the threshold
Counted(n) == IF n > LockThreshold THEN LockThreshold ELSE n

\* login, to the update: the row is read, the gates on it are passed and
\* bcrypt.compare has answered (the comparison touches nothing shared, so
\* that it is one step with the read)
LoginCheck(r) ==
  /\ logins[r].pc = "idle"
  /\ IF user.isBanned
     THEN /\ response' = Response("login", NoToken, "ACCOUNT_TERMINATED")
          /\ UNCHANGED logins
     ELSE IF Locked(user, now)
     THEN /\ response' = Response("login", NoToken, "ACCOUNT_LOCKED")
          /\ UNCHANGED logins
     ELSE /\ response' = NoResponse
          /\ \E match \in BOOLEAN :
               logins' = [logins EXCEPT ![r] =
                 [pc |-> IF match THEN "matched" ELSE "mismatched",
                  snap |-> Snapshot(user), readAt |-> resetsDone]]
  /\ UNCHANGED <<engineVars, storeVars, user, now, accessToken, resetsDone, failedChecks>>

\* login, the password did not match: the counter read at the start plus one
LoginFail(r) ==
  /\ logins[r].pc = "mismatched"
  /\ user' = Updated(user, updateData(logins[r].snap, now))
  /\ logins' = [logins EXCEPT ![r] = Idle]
  /\ response' = Response("login", NoToken, "Invalid credentials")
  /\ failedChecks' = Counted(failedChecks + 1)
  /\ UNCHANGED <<engineVars, storeVars, now, accessToken, resetsDone>>

\* login, the password matched: a patient who has not verified the email is
\* turned away, anyone else has the counters reset and a token signed
LoginSucceed(r) ==
  /\ logins[r].pc = "matched"
  /\ IF ~logins[r].snap.emailVerifiedAt
     THEN /\ response' = Response("login", NoToken, "EMAIL_NOT_VERIFIED")
          /\ UNCHANGED <<user, accessToken, failedChecks>>
     ELSE /\ user' = Updated(user, [failedLoginAttempts |-> 0, lockedUntil |-> NoLock])
          /\ accessToken' \in
               {accessToken, Token(logins[r].snap.tokenVersion, logins[r].readAt, resetsDone)}
          /\ response' = Response("login",
               Token(logins[r].snap.tokenVersion, logins[r].readAt, resetsDone),
               IF Locked(user, now) THEN "token, while locked" ELSE "token")
          /\ failedChecks' = 0
  /\ logins' = [logins EXCEPT ![r] = Idle]
  /\ UNCHANGED <<engineVars, storeVars, now, resetsDone>>

\* resetPassword with a reset token that forgotPassword issued
ResetPassword ==
  /\ resetsDone < MaxResets
  /\ user' = afterReset(user)
  /\ resetsDone' = resetsDone + 1
  /\ failedChecks' = 0
  /\ response' = Response("resetPassword", NoToken, "Password updated successfully.")
  /\ UNCHANGED <<engineVars, storeVars, now, logins, accessToken>>

\* a request through requireAuth carrying a token signed for the user
RequireAuth ==
  /\ response' = Response("requireAuth", accessToken, requireAuth(accessToken, user, now))
  /\ UNCHANGED <<engineVars, storeVars, user, now, logins, accessToken, resetsDone, failedChecks>>

\* new Date(): time passes
Tick ==
  /\ now < MaxTicks * TickMinutes
  /\ now' = now + TickMinutes
  /\ response' = NoResponse
  /\ UNCHANGED <<engineVars, storeVars, user, logins, accessToken, resetsDone, failedChecks>>

NextAuth ==
  \/ \E r \in LoginRequests : LoginCheck(r)
  \/ \E r \in LoginRequests : LoginFail(r)
  \/ \E r \in LoginRequests : LoginSucceed(r)
  \/ ResetPassword
  \/ RequireAuth
  \/ Tick

SpecAuth == InitAuth /\ [][NextAuth]_vars

(***************************************************************************)
(* The requests on the activation code and the plan instances, from an    *)
(* unused code and a quiet account                                         *)
(***************************************************************************)
InitClaim ==
  /\ template = NonObjectTemplate("undef")
  /\ config = ConfigNone
  /\ overridesJson = NonObjectPolicy("undef")
  /\ calls = <<>>
  /\ AuthQuiet
  /\ StoreQuiet

NextClaim ==
  \/ \E r \in ClaimRequests : ClaimLookup(r)
  \/ \E r \in ClaimRequests : ClaimFindExisting(r)
  \/ \E r \in ClaimRequests : ClaimTransaction(r)
  \/ \E r \in ClaimRequests : ClaimGuard(r)
  \/ \E r \in ClaimRequests : ClaimCreate(r)
  \/ \E r \in GenerateRequests : GenerateCheck(r)
  \/ \E r \in GenerateRequests : GenerateCreate(r)
  \/ RegenInstance

SpecClaim == InitClaim /\ [][NextClaim]_vars

(***************************************************************************)
(* The state machine: a caller holding a template, a config and a policy   *)
(* invokes generatePlan, and again with the same values.                   *)
(***************************************************************************)
Init ==
  /\ template \in Templates
  /\ config \in Configs
  /\ overridesJson \in Policies
  /\ calls = <<>>
  /\ AuthQuiet
  /\ StoreQuiet

\* what a call is recorded as: the template it was given and what it returned
Call == [given |-> template,
         out |-> generatePlan(template, config, overridesJson, EngineVersion, Category)]

\* POST /plan/generate: the first invocation of generatePlan
Generate ==
  /\ calls = <<>>
  /\ calls' = <<Call>>
  /\ template' = templateAfter(template, config)
  /\ UNCHANGED <<config, overridesJson, authVars, storeVars>>

\* the regenerate operation: generatePlan again, on the same values
Regenerate ==
  /\ Len(calls) = 1
  /\ calls' = Append(calls, Call)
  /\ template' = templateAfter(template, config)
  /\ UNCHANGED <<config, overridesJson, authVars, storeVars>>

Next == Generate \/ Regenerate

Spec == Init /\ [][Next]_vars

(***************************************************************************)
(* The same calls over the configurations of the rules: each field in turn *)
(* takes every value of its enumeration, a value no enumeration has, a     *)
(* number and no value, in the company of three settings of the others.    *)
(***************************************************************************)
\* PlanConfigSchema: the values of each field
FieldEnum(key) ==
  CASE key = "recovery_region" -> {"leg_foot", "arm_hand", "torso", "face_neck", "general"}
    [] key = "recovery_duration" ->
         {"standard_0_7", "standard_8_14", "standard_15_21", "extended_22_plus"}
    [] key = "mobility_impact" -> {"none", "mild", "limited", "non_weight_bearing"}
    [] key = "incision_status" ->
         {"intact_dressings", "sutures_staples", "drains_present", "open_wound", "none_visible"}
    [] key = "discomfort_pattern" ->
         {"expected_soreness", "sharp_intermittent", "burning_tingling", "escalating"}
    [] key = "follow_up_expectation" ->
         {"within_7_days", "within_14_days", "within_30_days", "none_scheduled"}

\* what a field of a config that was not validated may hold besides
FieldValues(key) == FieldEnum(key) \cup {"extended"} \cup NonStrings

\* {} : a config with none of the six fields
ConfigEmpty == Config("obj", Null, Null, Null, Null, Null, Null)

RuleConfigs ==
  {ConfigNone}
  \cup UNION {{[b EXCEPT ![key] = v] : b \in {ConfigA, ConfigB, ConfigEmpty},
                                       v \in FieldValues(key)} : key \in ConfigKeys}

\* day 7 (from 7.5) with ids of its own, none of them a rule's
RawPlain ==
  RawDay("obj", Num(15), "early", "Week one", Arr(<<"custom_b", " track_pain ">>), NoList)

RuleTemplates ==
  {NonObjectTemplate("undef")}
  \cup {[t |-> "obj", title |-> Null, disclaimer |-> "Not medical advice",
          modules |-> FullLibrary, days |-> Arr(q)] :
          q \in SeqsUpTo({RawArrival, RawIndexed, RawPlain}, MaxTemplateDays)}

RulePolicies ==
  {NonObjectPolicy("undef"),
   Policy(FALSE, Undef, NoNote, Arr(<<"edu_followup">>), Arr(<<"edu_wound">>),
          NoByPhase, NoByDay, Num(16))}

InitRules ==
  /\ template \in RuleTemplates
  /\ config \in RuleConfigs
  /\ overridesJson \in RulePolicies
  /\ calls = <<>>
  /\ AuthQuiet
  /\ StoreQuiet

SpecRules == InitRules /\ [][Next]_vars

(***************************************************************************)
(* Vocabulary of the properties                                            *)
(***************************************************************************)
Called == calls # <<>>

Returned == {calls[k].out.planJson : k \in 1..Len(calls)}

\* the phase the day ranges 0..3, 4..10, 11..20 give
RangePhase(day) ==
  CASE day \in 0..3 -> "early"
    [] day \in 4..10 -> "mid"
    [] day \in 11..20 -> "late"

\* the plan the same template and config give when no policy is supplied
WithoutPolicy ==
  generatePlan(template, config, NonObjectPolicy("undef"), EngineVersion, Category).planJson

SameModuleIds(p, q) ==
  /\ Len(p.days) = Len(q.days)
  /\ \A i \in 1..Len(p.days) : p.days[i].moduleIds = q.days[i].moduleIds

\* the template's modules value is a dictionary, or is absent (and read as {})
ModulesIsDictionary == ~isPlainObject(template) \/ template.modules.t \in {"undef", "null", "obj"}

EventsOf(p, type) ==
  LET OfType(e) == e.type = type IN SelectSeq(p.meta.clinicAuditEvents, OfType)

EventsOfDay(p, type, day) ==
  LET Match(e) == e.type = type /\ e.day = day IN SelectSeq(p.meta.clinicAuditEvents, Match)

Forbidden == Range(ListOrEmpty(overridesJson.forbiddenModuleIds))

\* ids some required list of the policy names
Required ==
  Range(ListOrEmpty(overridesJson.requiredModuleIds))
  \cup UNION {Range(PhaseList(overridesJson, ph)) : ph \in ValidPhases}
  \cup UNION {Range(ByDayEntries(overridesJson)[k].list.items) :
                k \in 1..Len(ByDayEntries(overridesJson))}

PolicyHasCap == overridesJson.maxModulesPerDay.t = "num"

PolicyCap == overridesJson.maxModulesPerDay.twice \div 2

\* the value of a config field as the engine reads it: a string, or none
FieldOf(key) == IF config.t = "obj" /\ config[key] \notin NonStrings THEN config[key] ELSE "#none"

\* the 21 days of a call before the rules run: the template's, or the default's
Filled(c) == ensure21Days(baseDaysOf(c.given))

\* the ids day d has before the rules run
BaseIds(c, d) == Range(dedupe(Filled(c)[d + 1].moduleIds))

FinalIds(c, d) == Range(c.out.planJson.days[d + 1].moduleIds)

DaysWith(c, id) == {d \in 0..20 : id \in FinalIds(c, d)}

\* no day has the id before the rules run
TemplateLacks(c, id) ==
  LET filled == Filled(c) IN \A d \in 0..20 : id \notin Range(dedupe(filled[d + 1].moduleIds))

\* the days on which the id is in the final list without having been there before
AddedOn(c, id) ==
  LET filled == Filled(c)
  IN {d \in 0..20 : id \in FinalIds(c, d) \ Range(dedupe(filled[d + 1].moduleIds))}

(***************************************************************************)
(* C1. Every plan generatePlan returns has exactly 21 days, entry i has    *)
(* day = i, and its phase is early for days 0..3, mid for 4..10 and late   *)
(* for 11..20, whatever phase a template entry supplied.                   *)
(***************************************************************************)
C1_TwentyOneDaysWithRangePhase ==
  \A p \in Returned :
    /\ Len(p.days) = 21
    /\ \A i \in 1..Len(p.days) :
         p.days[i].day = i - 1 /\ p.days[i].phase = RangePhase(i - 1)

\* a template entry that lands on day 0 with phase "late" has been processed
C1_Witness ==
  /\ Called
  /\ isPlainObject(template)
  /\ \E k \in 1..Len(template.days.items) :
       /\ template.days.items[k].phase = "late"
       /\ byDayGet(baseDaysOf(template), 0) = k

(***************************************************************************)
(* C2. Every id in every day's final moduleIds is a key of the plan's      *)
(* modules dictionary, and modulesResolved has the length of moduleIds,    *)
(* also when no policy is supplied.                                        *)
(***************************************************************************)
C2_ModuleIdsClosed ==
  \A p \in Returned : \A i \in 1..Len(p.days) :
    /\ isPlainObject(p.modules)
    /\ Range(p.days[i].moduleIds) \subseteq p.modules.def \cup p.modules.nul \cup p.modules.zero
    /\ Len(p.days[i].modulesResolved) = Len(p.days[i].moduleIds)

(***************************************************************************)
(* C3. For a schema-valid policy, no id of forbiddenModuleIds is in the    *)
(* final moduleIds of any day, even if it is also required or was in the   *)
(* base schedule.                                                          *)
(***************************************************************************)
C3_ForbiddenAbsent ==
  overridesJson \in ValidPolicies =>
    \A p \in Returned : \A i \in 1..Len(p.days) :
      Range(p.days[i].moduleIds) \cap Forbidden = {}

\* C3 as amended: the same, for a template whose modules value is a dictionary or
\* absent (otherwise enforcement is skipped and the plan is returned as it was)
C3_ForbiddenAbsentWhenEnforced ==
  overridesJson \in ValidPolicies /\ ModulesIsDictionary =>
    \A p \in Returned : \A i \in 1..Len(p.days) :
      Range(p.days[i].moduleIds) \cap Forbidden = {}

\* an id that is forbidden, required and known, on a base schedule that has it
C3_Witness ==
  /\ Called
  /\ overridesJson \in ValidPolicies
  /\ ModulesIsDictionary
  /\ LET base == WithoutPolicy
     IN \E id \in Forbidden \cap Required :
          /\ Known(baseOf(template).modules, id)
          /\ \E i \in 1..NumDays : id \in Range(base.days[i].moduleIds)

(***************************************************************************)
(* C4. For a schema-valid policy with maxModulesPerDay = N, every day of   *)
(* the returned plan has at most N ids.                                    *)
(***************************************************************************)
C4_CapRespected ==
  overridesJson \in ValidPolicies /\ PolicyHasCap =>
    \A p \in Returned : \A i \in 1..Len(p.days) : Len(p.days[i].moduleIds) <= PolicyCap

\* C4 as amended: the same, for a template whose modules value is a dictionary or
\* absent
C4_CapRespectedWhenEnforced ==
  overridesJson \in ValidPolicies /\ PolicyHasCap /\ ModulesIsDictionary =>
    \A p \in Returned : \A i \in 1..Len(p.days) : Len(p.days[i].moduleIds) <= PolicyCap

\* a day that is cut down to exactly N ids although required ids were added
C4_Witness ==
  /\ Called
  /\ overridesJson \in ValidPolicies /\ PolicyHasCap /\ ModulesIsDictionary
  /\ Range(ListOrEmpty(overridesJson.requiredModuleIds)) # {}
  /\ \E p \in Returned : \E i \in 1..Len(p.days) :
       /\ Len(p.days[i].moduleIds) = PolicyCap
       /\ EventsOfDay(p, "clinic_cap_trimmed", i - 1) # <<>>

(***************************************************************************)
(* C5. generatePlan with the empty policy {} returns the same days (same   *)
(* moduleIds in the same order on every day) and the same modules          *)
(* dictionary as generatePlan with no policy.                              *)
(***************************************************************************)
C5_EmptyPolicyIsNoPolicy ==
  overridesJson = EmptyPolicy =>
    LET base == WithoutPolicy
    IN \A p \in Returned : SameModuleIds(p, base) /\ p.modules = base.modules

(***************************************************************************)
(* C6. With a policy that is present and fails schema validation,          *)
(* generatePlan returns 21 days whose moduleIds are those produced with no *)
(* policy, records exactly one clinic_overrides_invalid event and no       *)
(* removal, addition or trimming event.                                    *)
(***************************************************************************)
C6_InvalidPolicyIgnored ==
  overridesJson \in InvalidPolicies =>
    LET base == WithoutPolicy
    IN \A p \in Returned :
      /\ Len(p.days) = 21
      /\ SameModuleIds(p, base)
      /\ Len(EventsOf(p, "clinic_overrides_invalid")) = 1
      /\ EventsOf(p, "clinic_forbid_removed") = <<>>
      /\ EventsOf(p, "clinic_require_added") = <<>>
      /\ EventsOf(p, "clinic_cap_trimmed") = <<>>

\* an invalid policy whose forbidden list names an id the schedule has
C6_Witness ==
  /\ Called
  /\ overridesJson \in InvalidPolicies
  /\ LET base == WithoutPolicy
     IN \E i \in 1..NumDays : Range(base.days[i].moduleIds) \cap Forbidden # {}

C8_NoPlanWithoutTemplate ==
  \A k \in 1..Len(calls) :
    ~isPlainObject(calls[k].given) => Len(calls[k].out.planJson.days) # 21

PlanBeforeEnforcement ==
  planJsonOf(template, config, overridesJson, EngineVersion, Category)

\* for each day, the list as it stands when the cap step is reached
PreCapLists ==
  LET plan == PlanBeforeEnforcement
      pre == Prepared(overridesJson, plan.modules)
  IN AsSeq([i \in 1..NumDays |-> EnforceDay(plan.days[i], pre).preCap])

(***************************************************************************)
(* C9. With a schema-valid policy that sets maxModulesPerDay = N, a day    *)
(* whose list has more than N ids after the forbid and require steps ends  *)
(* with the first N of them in order, and exactly one clinic_cap_trimmed   *)
(* event of that day lists the rest in order; a day with at most N ids is  *)
(* unchanged and has no clinic_cap_trimmed event.                          *)
(***************************************************************************)
C9_CapKeepsFirstN ==
  overridesJson \in ValidPolicies /\ PolicyHasCap /\ ModulesIsDictionary =>
    \A lists \in {PreCapLists} : \A p \in Returned : \A i \in 1..Len(p.days) :
      LET pre == lists[i]
          final == p.days[i].moduleIds
          trims == EventsOfDay(p, "clinic_cap_trimmed", i - 1)
      IN IF Len(pre) > PolicyCap
         THEN /\ final = SubSeq(pre, 1, PolicyCap)
              /\ Len(trims) = 1
              /\ trims[1].removed = SubSeq(pre, PolicyCap + 1, Len(pre))
              /\ final \o trims[1].removed = pre
         ELSE final = pre /\ trims = <<>>

\* one day loses at least two ids to the cap and another day is within it
C9_Witness ==
  /\ Called
  /\ overridesJson \in ValidPolicies /\ PolicyHasCap /\ ModulesIsDictionary
  /\ LET lists == PreCapLists
     IN \E i, j \in 1..NumDays :
          /\ Len(lists[i]) >= PolicyCap + 2
          /\ Len(lists[j]) \in 1..PolicyCap

(***************************************************************************)
(* C10. With a schema-valid policy, every id that is in a day's moduleIds  *)
(* before enforcement and not in its final moduleIds is named in a         *)
(* clinic_forbid_removed event of that day or in the removed list of that  *)
(* day's clinic_cap_trimmed event, ids unknown to the dictionary included. *)
(***************************************************************************)
C10_EveryRemovalAudited ==
  overridesJson \in ValidPolicies /\ ModulesIsDictionary =>
    LET before == PlanBeforeEnforcement
    IN \A p \in Returned : \A i \in 1..Len(p.days) :
      \A id \in Range(before.days[i].moduleIds) \ Range(p.days[i].moduleIds) :
        \/ \E e \in Range(EventsOfDay(p, "clinic_forbid_removed", i - 1)) : e.moduleId = id
        \/ \E e \in Range(EventsOfDay(p, "clinic_cap_trimmed", i - 1)) : id \in Range(e.removed)

(***************************************************************************)
(* C11. With a schema-valid policy and a modules dictionary, an id of      *)
(* requiredModuleIds, requiredByPhase or requiredByDay that is not a key   *)
(* of the dictionary is in no day's final moduleIds, and a                 *)
(* clinic_unknown_module_ignored event names the id and the list it came   *)
(* from.                                                                   *)
(***************************************************************************)
\* the keys of a modules dictionary
KeysOf(modules) == modules.def \cup modules.nul \cup modules.zero

\* the required lists of the policy, each under the name an event gives it
RequiredLists ==
  {[reason |-> "requiredModuleIds", ids |-> Range(ListOrEmpty(overridesJson.requiredModuleIds))]}
  \cup {[reason |-> "requiredByPhase." \o ph, ids |-> Range(PhaseList(overridesJson, ph))] :
          ph \in ValidPhases}
  \cup {[reason |-> "requiredByDay." \o ByDayEntries(overridesJson)[k].key,
          ids |-> Range(ByDayEntries(overridesJson)[k].list.items)] :
          k \in 1..Len(ByDayEntries(overridesJson))}

C11_UnknownRequiredIgnored ==
  overridesJson \in ValidPolicies /\ ModulesIsDictionary =>
    \A p \in Returned : \A l \in RequiredLists : \A id \in l.ids \ KeysOf(p.modules) :
      /\ \A i \in 1..Len(p.days) : id \notin Range(p.days[i].moduleIds)
      /\ \E e \in Range(EventsOf(p, "clinic_unknown_module_ignored")) :
           e.moduleId = id /\ e.reason = l.reason

(***************************************************************************)
(* C12. For each d in 0..20 to which one or more template entries          *)
(* normalize (day floored and clamped to 0..20, or the array index when    *)
(* day is no finite number), day d of the plan takes its title, moduleIds  *)
(* and boxItems from the last such entry in template order.                *)
(***************************************************************************)
\* the entries of the template a call was given
EntriesOf(tpl) == IF isPlainObject(tpl) THEN asArray(tpl.days) ELSE <<>>

\* the day number an entry stands for
LandsOn(raw, index) ==
  IF raw.t = "obj" /\ raw.day.t = "num"
  THEN (IF raw.day.twice \div 2 < 0 THEN 0
        ELSE IF raw.day.twice \div 2 > 20 THEN 20 ELSE raw.day.twice \div 2)
  ELSE index

\* s is the beginning of l
IsPrefix(s, l) == Len(s) <= Len(l) /\ SubSeq(l, 1, Len(s)) = s

C12_LastOccurrenceWins ==
  \A c \in Range(calls) : \A d \in 0..20 :
    LET entries == EntriesOf(c.given)
        hits == {k \in 1..Len(entries) : LandsOn(entries[k], k - 1) = d}
    IN hits # {} =>
         LET last == CHOOSE k \in hits : \A j \in hits : j <= k
             entry == normalizeDayV2(entries[last], last - 1)
             out == c.out.planJson.days[d + 1]
         IN /\ out.title = entry.title
            /\ out.boxItems = entry.boxItems
            /\ Falsy(overridesJson) => IsPrefix(dedupe(entry.moduleIds), out.moduleIds)

\* two entries of different content land on the same day, one of them through
\* clamping or through its array index
C12_Witness ==
  /\ Called
  /\ Falsy(overridesJson)
  /\ LET entries == EntriesOf(calls[1].given)
     IN \E j, k \in 1..Len(entries) :
          /\ j < k
          /\ LandsOn(entries[j], j - 1) = LandsOn(entries[k], k - 1)
          /\ entries[j].day.t # "num" \/ entries[j].day.twice \notin 0..40
          /\ normalizeDayV2(entries[j], j - 1).title # normalizeDayV2(entries[k], k - 1).title
          /\ dedupe(normalizeDayV2(entries[k], k - 1).moduleIds) # <<>>

(***************************************************************************)
(* C13. With no policy, a day 0..3 the template does not supply starts     *)
(* with checkin_overall, track_pain, rf_emergency, rf_worsening, and a day *)
(* 4..20 the template does not supply holds only modules the rules add.    *)
(***************************************************************************)
\* the modules the rules of applyRules add
RuleModules ==
  {"track_sleep", "track_swelling", "edu_wound", "rf_infection", "edu_mobility",
   "rf_worsening", "edu_followup", "edu_longterm"}

\* no entry of the template stands for day d
NotSupplied(tpl, d) ==
  \A k \in 1..Len(EntriesOf(tpl)) : LandsOn(EntriesOf(tpl)[k], k - 1) # d

C13_LaterDefaultsEmpty ==
  Falsy(overridesJson) =>
    \A c \in Range(calls) : \A d \in 0..20 :
      NotSupplied(c.given, d) =>
        LET final == c.out.planJson.days[d + 1].moduleIds
        IN IF d <= 3
           THEN IsPrefix(<<"checkin_overall", "track_pain", "rf_emergency", "rf_worsening">>,
                         final)
           ELSE Range(final) \subseteq RuleModules

(***************************************************************************)
(* C14. For a config field that is absent or not a string, no token with   *)
(* the field's prefix is in meta.appliedRules and, with no policy, no day  *)
(* gains a module of that field's rule; with no string field at all only   *)
(* the global rule's track_sleep is added.                                 *)
(***************************************************************************)
FieldPrefix(key) ==
  CASE key = "recovery_region" -> "region:"
    [] key = "recovery_duration" -> "duration:"
    [] key = "mobility_impact" -> "mobility:"
    [] key = "incision_status" -> "incision:"
    [] key = "discomfort_pattern" -> "discomfort:"
    [] key = "follow_up_expectation" -> "followup:"

\* the modules the rule of a field adds
FieldModules(key) ==
  CASE key = "recovery_region" -> {"track_swelling"}
    [] key = "recovery_duration" -> {"edu_longterm"}
    [] key = "mobility_impact" -> {"edu_mobility"}
    [] key = "incision_status" -> {"edu_wound", "rf_infection"}
    [] key = "discomfort_pattern" -> {"rf_worsening"}
    [] key = "follow_up_expectation" -> {"edu_followup"}

HasPrefix(token, prefix) ==
  Len(token) >= Len(prefix) /\ SubSeq(token, 1, Len(prefix)) = prefix

C14_NoDefaultForMissingField ==
  \A c \in Range(calls) :
    LET missing == {key \in ConfigKeys : FieldOf(key) = "#none"}
        tokens == c.out.planJson.meta.appliedRules
    IN /\ \A key \in missing :
            /\ \A n \in 1..Len(tokens) : ~HasPrefix(tokens[n], FieldPrefix(key))
            /\ Falsy(overridesJson) => \A id \in FieldModules(key) : AddedOn(c, id) = {}
       /\ missing = ConfigKeys =>
            /\ tokens = <<"global:add_track_sleep_daily">>
            /\ Falsy(overridesJson) =>
                 \A d \in 0..20 : FinalIds(c, d) = BaseIds(c, d) \cup {"track_sleep"}

\* a config that has some fields and lacks incision_status was used with no policy
C14_Witness ==
  /\ Called
  /\ Falsy(overridesJson)
  /\ FieldOf("incision_status") = "#none"
  /\ FieldOf("recovery_region") = "leg_foot"
  /\ FieldOf("follow_up_expectation") = "within_7_days"
  /\ \E n \in 1..Len(calls[1].out.planJson.meta.appliedRules) :
       HasPrefix(calls[1].out.planJson.meta.appliedRules[n], "region:")

(***************************************************************************)
(* C15. With no policy and a template without edu_followup, edu_followup   *)
(* is in the final moduleIds of exactly days 5 and 6 for within_7_days,    *)
(* days 12 and 13 for within_14_days, days 19 and 20 for within_30_days,   *)
(* and of no day for none_scheduled.                                       *)
(***************************************************************************)
C15_FollowUpDays ==
  Falsy(overridesJson) =>
    \A c \in Range(calls) :
      TemplateLacks(c, "edu_followup") =>
        LET on == DaysWith(c, "edu_followup")
            v == FieldOf("follow_up_expectation")
        IN /\ v = "within_7_days" => on = {5, 6}
           /\ v = "within_14_days" => on = {12, 13}
           /\ v = "within_30_days" => on = {19, 20}
           /\ v = "none_scheduled" => on = {}

\* the 7-day reminder was added to a template that supplies other days
C15_Witness ==
  /\ Called /\ Falsy(overridesJson)
  /\ FieldOf("follow_up_expectation") = "within_7_days"
  /\ EntriesOf(calls[1].given) # <<>>
  /\ TemplateLacks(calls[1], "edu_followup")
  /\ DaysWith(calls[1], "edu_followup") # {}

(***************************************************************************)
(* C16. With no policy and a template without track_swelling,              *)
(* track_swelling is in the final moduleIds of all 21 days for leg_foot    *)
(* and face_neck, of exactly days 0..3 for arm_hand and torso, and of no   *)
(* day for general.                                                        *)
(***************************************************************************)
C16_RegionDays ==
  Falsy(overridesJson) =>
    \A c \in Range(calls) :
      TemplateLacks(c, "track_swelling") =>
        LET on == DaysWith(c, "track_swelling")
            v == FieldOf("recovery_region")
        IN /\ v \in {"leg_foot", "face_neck"} => on = 0..20
           /\ v \in {"arm_hand", "torso"} => on = 0..3
           /\ v = "general" => on = {}

\* region torso on a template whose entry for day 0 came with the phase "late"
C16_Witness ==
  /\ Called /\ Falsy(overridesJson)
  /\ FieldOf("recovery_region") = "torso"
  /\ TemplateLacks(calls[1], "track_swelling")
  /\ \E k \in 1..Len(EntriesOf(calls[1].given)) :
       EntriesOf(calls[1].given)[k].phase = "late" /\ LandsOn(EntriesOf(calls[1].given)[k], k - 1) = 0
  /\ 0 \in DaysWith(calls[1], "track_swelling")

(***************************************************************************)
(* C17. With no policy and a template without edu_wound and rf_infection,  *)
(* for every valid incision_status edu_wound is in exactly days 0..10 and  *)
(* rf_infection in exactly days 0..3, or in exactly days 0..10 when the    *)
(* status is open_wound or drains_present.                                 *)
(***************************************************************************)
C17_IncisionDays ==
  Falsy(overridesJson) =>
    \A c \in Range(calls) :
      TemplateLacks(c, "edu_wound") /\ TemplateLacks(c, "rf_infection") =>
        LET v == FieldOf("incision_status")
        IN v \in FieldEnum("incision_status") =>
             /\ DaysWith(c, "edu_wound") = 0..10
             /\ DaysWith(c, "rf_infection") =
                  IF v \in {"open_wound", "drains_present"} THEN 0..10 ELSE 0..3

\* a status that keeps rf_infection to the early days
C17_Witness ==
  /\ Called /\ Falsy(overridesJson)
  /\ FieldOf("incision_status") = "none_visible"
  /\ TemplateLacks(calls[1], "edu_wound") /\ TemplateLacks(calls[1], "rf_infection")
  /\ DaysWith(calls[1], "rf_infection") # DaysWith(calls[1], "edu_wound")

(***************************************************************************)
(* C18. With no policy and a template without edu_mobility, edu_mobility   *)
(* is in the final moduleIds of exactly days 4..10 for limited and         *)
(* non_weight_bearing, and of no day for none and mild.                    *)
(***************************************************************************)
C18_MobilityDays ==
  Falsy(overridesJson) =>
    \A c \in Range(calls) :
      TemplateLacks(c, "edu_mobility") =>
        LET on == DaysWith(c, "edu_mobility")
            v == FieldOf("mobility_impact")
        IN /\ v \in {"limited", "non_weight_bearing"} => on = 4..10
           /\ v \in {"none", "mild"} => on = {}

\* the module was added on day 7, which the template supplies with the phase "early"
C18_Witness ==
  /\ Called /\ Falsy(overridesJson)
  /\ FieldOf("mobility_impact") = "non_weight_bearing"
  /\ TemplateLacks(calls[1], "edu_mobility")
  /\ \E k \in 1..Len(EntriesOf(calls[1].given)) :
       EntriesOf(calls[1].given)[k].phase = "early" /\ LandsOn(EntriesOf(calls[1].given)[k], k - 1) = 7
  /\ 7 \in DaysWith(calls[1], "edu_mobility")

(***************************************************************************)
(* C19. If recovery_duration is "extended", edu_longterm is added to every *)
(* late-phase day (11..20) and to no early- or mid-phase day; for every    *)
(* other duration value it is added to no day.                             *)
(***************************************************************************)
C19_ExtendedAddsLongTerm ==
  Falsy(overridesJson) =>
    \A c \in Range(calls) :
      /\ 11..20 \subseteq DaysWith(c, "edu_longterm") <=> FieldOf("recovery_duration") = "extended"
      /\ AddedOn(c, "edu_longterm") \subseteq
           (IF FieldOf("recovery_duration") = "extended" THEN 11..20 ELSE {})

\* C19 as amended: the same with no policy, for the value "extended_22_plus" of
\* the configuration schema
C19_Extended22PlusAddsLongTerm ==
  Falsy(overridesJson) =>
    \A c \in Range(calls) :
      IF FieldOf("recovery_duration") = "extended_22_plus"
      THEN /\ 11..20 \subseteq DaysWith(c, "edu_longterm")
           /\ AddedOn(c, "edu_longterm") = 11..20
      ELSE AddedOn(c, "edu_longterm") = {}

\* the rule fired on a template that supplies days of its own
C19_Witness ==
  /\ Called /\ Falsy(overridesJson)
  /\ FieldOf("recovery_duration") = "extended_22_plus"
  /\ AddedOn(calls[1], "edu_longterm") = 11..20
  /\ EntriesOf(calls[1].given) # <<>>

(***************************************************************************)
(* C20. After the rule stage a day's moduleIds has no duplicates: the      *)
(* template's (or default) ids come first in first-seen order, then the    *)
(* rule-added ids not already present in the order track_sleep,            *)
(* track_swelling, edu_wound, rf_infection, edu_mobility, rf_worsening,    *)
(* edu_followup, edu_longterm. The override stage keeps the order of the   *)
(* ids that survive it and puts the ids it adds after them.                *)
(***************************************************************************)
RuleOrder ==
  <<"track_sleep", "track_swelling", "edu_wound", "rf_infection", "edu_mobility",
    "rf_worsening", "edu_followup", "edu_longterm">>

NoDuplicates(l) == Cardinality(Range(l)) = Len(l)

\* the trimmed, non-blank string ids of a list, each at its first occurrence
FirstSeen(l) ==
  LET upTo[n \in 0..Len(l)] ==
        IF n = 0 THEN <<>>
        ELSE LET seen == upTo[n - 1]
             IN IF l[n] \in NonStrings \/ Trim(l[n]) = "" \/ Trim(l[n]) \in Range(seen)
                THEN seen
                ELSE Append(seen, Trim(l[n]))
  IN upTo[Len(l)]

\* the elements of l that are in S, in the order of l
Restrict(l, S) == LET In(x) == x \in S IN SelectSeq(l, In)

C20_FirstSeenOrder ==
  Called =>
  \A before \in {PlanBeforeEnforcement} : \A c \in Range(calls) :
  \A filled \in {Filled(c)} : \A d \in 0..20 :
    LET own == FirstSeen(filled[d + 1].moduleIds)
        ruled == before.days[d + 1].moduleIds
        added == SubSeq(ruled, Len(own) + 1, Len(ruled))
        final == c.out.planJson.days[d + 1].moduleIds
        kept == Restrict(final, Range(ruled))
    IN /\ NoDuplicates(ruled)
       /\ IsPrefix(own, ruled)
       /\ added = Restrict(RuleOrder, Range(added))
       /\ NoDuplicates(final)
       /\ kept = Restrict(ruled, Range(final))
       /\ IsPrefix(kept, final)
       /\ Range(final) \ Range(ruled) \subseteq Required

\* a day whose template ids repeat an id and hold one a rule adds too, and on which
\* the policy removed an id from the middle and added one at the end
C20_Witness ==
  /\ Called
  /\ overridesJson \in ValidPolicies /\ ModulesIsDictionary
  /\ LET before == PlanBeforeEnforcement
     IN \E d \in 0..20 :
          LET raw == ensure21Days(baseDaysOf(calls[1].given))[d + 1].moduleIds
              ruled == before.days[d + 1].moduleIds
              final == calls[1].out.planJson.days[d + 1].moduleIds
          IN /\ Len(FirstSeen(raw)) < Len(raw)
             /\ Range(raw) \cap Range(RuleOrder) # {}
             /\ Range(final) \ Range(ruled) # {}
             /\ \E i \in 2..(Len(ruled) - 1) :
                  /\ ruled[i] \notin Range(final)
                  /\ ruled[i - 1] \in Range(final) /\ ruled[i + 1] \in Range(final)

(***************************************************************************)
(* C21. meta.appliedRules holds a token <rule>:add_* if and only if that   *)
(* rule added its module to at least one day; in particular                *)
(* followup:add_edu_followup_reminder_days is there if and only if the     *)
(* follow-up rule added edu_followup to a day.                             *)
(***************************************************************************)
\* the rules by their prefix, with the module each adds
AddingRules ==
  {[prefix |-> "global:add_", id |-> "track_sleep"],
   [prefix |-> "region:add_", id |-> "track_swelling"],
   [prefix |-> "mobility:add_", id |-> "edu_mobility"],
   [prefix |-> "followup:add_", id |-> "edu_followup"],
   [prefix |-> "duration:add_", id |-> "edu_longterm"]}

\* with no policy and a template without the module, the days that end with the
\* module are the days the rule added it to
C21_TraceNamesRulesThatFired ==
  Falsy(overridesJson) =>
    \A c \in Range(calls) : \A r \in AddingRules :
      TemplateLacks(c, r.id) =>
        LET tokens == c.out.planJson.meta.appliedRules
        IN (\E n \in 1..Len(tokens) : HasPrefix(tokens[n], r.prefix))
             <=> DaysWith(c, r.id) # {}

(***************************************************************************)
(* C22. For a schema-valid policy, every id of requiredModuleIds that is a *)
(* key of the module dictionary and is not forbidden is in the final       *)
(* moduleIds of all 21 days, for every permitted maxModulesPerDay.         *)
(***************************************************************************)
RequiredGlobal == Range(ListOrEmpty(overridesJson.requiredModuleIds))

C22_RequiredPresent ==
  overridesJson \in ValidPolicies /\ ModulesIsDictionary =>
    \A p \in Returned : \A id \in (RequiredGlobal \cap KeysOf(p.modules)) \ Forbidden :
      \A i \in 1..Len(p.days) : id \in Range(p.days[i].moduleIds)

\* C22 as amended: the same on every day whose list, when the cap step is reached,
\* has no more ids than the cap allows (or when the policy sets no cap), for ids
\* whose dictionary entry is not a falsy value
C22_RequiredPresentWithinCap ==
  overridesJson \in ValidPolicies /\ ModulesIsDictionary =>
    \A lists \in {PreCapLists} : \A p \in Returned :
      \A id \in (RequiredGlobal \cap p.modules.def) \ Forbidden :
        \A i \in 1..Len(p.days) :
          (~PolicyHasCap \/ Len(lists[i]) <= PolicyCap) => id \in Range(p.days[i].moduleIds)

\* a required id the base schedule lacks was added under a cap that leaves it in
C22_Witness ==
  /\ Called
  /\ overridesJson \in ValidPolicies /\ ModulesIsDictionary /\ PolicyHasCap
  /\ LET base == WithoutPolicy
         lists == PreCapLists
     IN \E p \in Returned : \E id \in (RequiredGlobal \cap p.modules.def) \ Forbidden :
          \E i \in 1..NumDays :
            /\ id \notin Range(base.days[i].moduleIds)
            /\ Len(lists[i]) <= PolicyCap
            /\ id \in Range(p.days[i].moduleIds)

(***************************************************************************)
(* C23. For a schema-valid policy with no cap, a known, non-forbidden id   *)
(* that is only in requiredByPhase[p] is added to every day of phase p and *)
(* to no day of another phase; one that is only in requiredByDay under key *)
(* k is added to the day whose decimal number is k and to no other day.    *)
(***************************************************************************)
\* the lists of the policy that name the id
ListsNaming(id) == {l \in RequiredLists : id \in l.ids}

C23_ScopedRequirements ==
  overridesJson \in ValidPolicies /\ ~PolicyHasCap /\ ModulesIsDictionary =>
    \A before \in {PlanBeforeEnforcement} : \A p \in Returned :
    \A l \in RequiredLists \ {l \in RequiredLists : l.reason = "requiredModuleIds"} :
    \A id \in (l.ids \cap p.modules.def) \ Forbidden :
      ListsNaming(id) = {l} =>
        \A d \in 0..20 :
          LET inScope == \/ l.reason = "requiredByPhase." \o RangePhase(d)
                         \/ l.reason = "requiredByDay." \o ToString(d)
          IN IF inScope THEN id \in Range(p.days[d + 1].moduleIds)
             ELSE id \in Range(p.days[d + 1].moduleIds) => id \in Range(before.days[d + 1].moduleIds)

\* a policy with a list for day 7 and a key that is no day's number, on a base
\* schedule without the id of day 7
C23_Witness ==
  /\ Called
  /\ overridesJson \in ValidPolicies /\ ~PolicyHasCap /\ ModulesIsDictionary
  /\ \E l \in RequiredLists : l.reason = "requiredByDay.21" /\ l.ids # {}
  /\ \E l \in RequiredLists : \E id \in l.ids :
       /\ l.reason = "requiredByDay.7"
       /\ ListsNaming(id) = {l}
       /\ \A d \in 0..20 : id \notin Range(PlanBeforeEnforcement.days[d + 1].moduleIds)
       /\ id \in Range(calls[1].out.planJson.days[8].moduleIds)

(***************************************************************************)
(* C24. For a schema-valid policy and each day, every id named in a        *)
(* clinic_require_added event of the day is in the day's final moduleIds   *)
(* unless the day's clinic_cap_trimmed event lists it as removed.          *)
(***************************************************************************)
C24_AuditReplays ==
  overridesJson \in ValidPolicies /\ ModulesIsDictionary =>
    \A p \in Returned : \A d \in 0..20 :
      \A e \in Range(EventsOfDay(p, "clinic_require_added", d)) :
        \/ e.moduleId \in Range(p.days[d + 1].moduleIds)
        \/ \E t \in Range(EventsOfDay(p, "clinic_cap_trimmed", d)) : e.moduleId \in Range(t.removed)

(***************************************************************************)
(* C25. In meta.clinicAuditEvents every clinic_unknown_module_ignored      *)
(* event precedes every per-day event and there is one per occurrence of   *)
(* an unknown id in a policy list; per-day events are in ascending day     *)
(* order; within a day clinic_forbid_removed events come first, then       *)
(* clinic_require_added with reason requiredModuleIds, requiredByPhase,    *)
(* requiredByDay in that order, then the day's clinic_cap_trimmed.         *)
(***************************************************************************)
\* the place of an event in the order of the enforcement steps
StepOf(e) ==
  CASE e.type = "clinic_unknown_module_ignored" -> 0
    [] e.type = "clinic_forbid_removed" -> 1
    [] e.type = "clinic_require_added" /\ e.reason = "requiredModuleIds" -> 2
    [] e.type = "clinic_require_added" /\ HasPrefix(e.reason, "requiredByPhase.") -> 3
    [] e.type = "clinic_require_added" /\ HasPrefix(e.reason, "requiredByDay.") -> 4
    [] e.type = "clinic_cap_trimmed" -> 5
    [] OTHER -> 6

\* the lists of the policy as written, one after the other
PolicyLists ==
  <<ListOrEmpty(overridesJson.requiredModuleIds), PhaseList(overridesJson, "early"),
    PhaseList(overridesJson, "mid"), PhaseList(overridesJson, "late")>>
  \o AsSeq([k \in 1..Len(ByDayEntries(overridesJson)) |->
              ByDayEntries(overridesJson)[k].list.items])

\* how many entries of the policy's lists the dictionary does not know
UnknownOccurrences(modules) ==
  Cardinality({<<n, i>> \in (1..Len(PolicyLists)) \X (1..8) :
                 i <= Len(PolicyLists[n]) /\ ~Known(modules, PolicyLists[n][i])})

C25_EventsInStepOrder ==
  overridesJson \in ValidPolicies /\ ModulesIsDictionary =>
    \A p \in Returned :
      LET events == p.meta.clinicAuditEvents
      IN /\ Len(EventsOf(p, "clinic_unknown_module_ignored")) = UnknownOccurrences(p.modules)
         /\ \A j \in 2..Len(events) :
              LET a == events[j - 1]
                  b == events[j]
              IN /\ StepOf(a) = 0 \/ StepOf(b) # 0
                 /\ StepOf(a) # 0 /\ StepOf(b) # 0 =>
                      a.day < b.day \/ (a.day = b.day /\ StepOf(a) <= StepOf(b))
         /\ \A d \in 0..20 : Len(EventsOfDay(p, "clinic_cap_trimmed", d)) <= 1

\* unknown ids were ignored, and one day has a removal, additions for two reasons
\* and a trim
C25_Witness ==
  /\ Called
  /\ overridesJson \in ValidPolicies /\ ModulesIsDictionary
  /\ LET p == calls[1].out.planJson
     IN /\ Len(EventsOf(p, "clinic_unknown_module_ignored")) >= 1
        /\ \E d \in 0..19 :
             /\ EventsOfDay(p, "clinic_forbid_removed", d) # <<>>
             /\ Cardinality({e.reason : e \in Range(EventsOfDay(p, "clinic_require_added", d))}) >= 2
             /\ EventsOfDay(p, "clinic_cap_trimmed", d) # <<>>
             /\ EventsOfDay(p, "clinic_require_added", d + 1) # <<>>

SignedBeforeReset(token) == token.signedAt < resetsDone

\* the token comes from a login that read the user row after the latest
\* password reset
IssuedByLoginAfterReset(token) ==
  /\ token.tokenVersion # NoVersion
  /\ resetsDone > 0
  /\ token.readAt = resetsDone

\* requireAuth has just answered a request
Answered == response.route = "requireAuth"

\* login requests that have compared a wrong password and not yet written
Mismatched == {r \in LoginRequests : logins[r].pc = "mismatched"}

C28_LockoutHolds ==
  /\ failedChecks >= LockThreshold => user.lockedUntil # NoLock
  /\ user.lockedUntil = NoLock =>
       user.failedLoginAttempts + Cardinality(Mismatched) <= LockThreshold
  /\ response.code # "token, while locked"
  /\ (response.route = "login" /\ response.code = "token") => user.failedLoginAttempts = 0

(***************************************************************************)
(* Vocabulary of the activation code's properties                          *)
(***************************************************************************)
\* POST /activation/claim has just ended for the user, by a response or by
\* an error thrown
ClaimEnded == reply.route = "claim"

\* the ends of a claim that are an error about the code being claimed
ClaimRefusals == {"CODE_ALREADY_CLAIMED", "Error: CODE_ALREADY_CLAIMED"}

\* an insert the unique index refused
IndexRefusals == {"Internal Server Error", "Error: P2002"}

(***************************************************************************)
(* C29. Whatever the interleaving of claim and generate requests, the      *)
(* activation code has at most one plan instance, the first one created,   *)
(* and a regeneration changes that instance and adds none.                 *)
(***************************************************************************)
C29_OneInstancePerCode ==
  /\ Cardinality(InstancesOf(instances, CodeId)) <= 1
  /\ \A x \in instances : x.id = 1
  /\ reply.route = "regen" =>
       \E x \in instances : x.id = reply.plan /\ x.regenerated > 0 /\ instances = {x}

\* a request that found no instance lost the race for the insert to another,
\* was refused by the index, and the one instance has been regenerated
C29_Witness ==
  /\ reply.code \in IndexRefusals
  /\ \E x \in instances : x.regenerated > 0

(***************************************************************************)
(* C30. The claim as stated: the code is claimed at most once and by one   *)
(* user for good, a claim that ends while the code is claimed by another   *)
(* user ends in CODE_ALREADY_CLAIMED and the instance is none of the       *)
(* claimant's, and a claim by the user who holds the code, ending when an  *)
(* instance exists, returns that instance.                                 *)
(***************************************************************************)
C30_ClaimedByOneUser ==
  /\ timesClaimed <= 1
  /\ activation.status = "CLAIMED" <=> activation.claimedByUserId # NoUser
  /\ \A r \in ClaimRequests :
       (claims[r].pc # "idle" /\ claims[r].activation.status = "CLAIMED") =>
         activation = claims[r].activation
  /\ \A x \in instances : x.userId = activation.claimedByUserId
  /\ (ClaimEnded /\ activation.claimedByUserId \notin {NoUser, reply.userId}) =>
       reply.code \in ClaimRefusals
  /\ (ClaimEnded /\ activation.claimedByUserId = reply.userId /\ instances # {}) =>
       /\ reply.code = "READY"
       /\ \E x \in instances : x.id = reply.plan

====
